---- MODULE Spec2Model ----
(***************************************************************************)
(* Model of the task graph engine of mona (src/caf2/caf.py): futures,      *)
(* tasks, templates, indexors and the session that creates and evaluates   *)
(* them.  The heap of Python objects is a sequence of records; a future is *)
(* its index in the heap.  Operations on the heap are operators from a     *)
(* state record to the SET of state records the call can end in (iteration *)
(* over a Python set has no specified order), and an exception is the      *)
(* field err, which makes every later statement of the call a no-op.       *)
(***************************************************************************)
EXTENDS Integers, Sequences, FiniteSets, TLC

\* ---- bounds of the model
MaxHeap == 3          \* futures ever constructed
MaxList == 1          \* length of a list object handed to a rule or to eval
MaxDepth == 1         \* keys of one Indexor
NumSessions == 2      \* Session objects of the program

Sessions == 1..NumSessions
Rules == {"f", "g", "h"}   \* rule functions of the user's script
Lits == {7}           \* integer literals of the user's script
Keys == {1}           \* subscripts of the user's script; 1 is Python's index 0

VARIABLES
    heap,      \* the Future objects, in order of construction
    sess,      \* per Session: _pending, _waiting, _tasks
    active,    \* Session._active: 0 is None
    evalfut,   \* the future Session.eval is looping for; 0 outside eval
    err,       \* the exception propagating to the user, "none" if none
    trace,     \* events of the last operation, in order
    past,      \* history: hash ids of the tasks that ran in the sessions that ended
    \* the cellar of caflib/Cellar.py
    objects,   \* the files under objects/: hash -> content
    objectdb,  \* Cellar.objectdb: the hashes this instance has seen
    taskrows,  \* table tasks: hash -> state, outputs of the task json, created
    builds,    \* table builds, in order of insertion: created; the id is the index
    targets,   \* table targets: rows [taskhash, buildid, path]
    retain,    \* the temporary table retain exists on this connection
    clock,     \* datetime.today() at the last store_build, in seconds
    call,      \* the last call on the cellar and what it returned or raised
    co,        \* Cellar.checkout: its local variables and the directory it fills
    trav,      \* traverse_async of caf2/graph.py: its local variables
    sch,       \* the scheduler that drives traverse_async: states, errors
    sync,      \* traverse of caf2/graph.py: its local variables
    conf,      \* Context of caflib/Configure.py: tasks, children, hashes
    rst,       \* reset of caf/cli.py: states of the queue, calls made
    workers    \* Worker of caflib/Worker.py: the tree and each worker's locals

vars == <<heap, sess, active, evalfut, err, trace>>
cellar == <<objects, objectdb, taskrows, builds, targets, retain, clock, call>>

\* what the operations of the engine leave alone
graph == <<trav, sch>>
misc == <<sync, conf, rst, workers>>
others == <<past, cellar, co, graph, misc>>
base == <<vars, past, cellar, co, graph>>

\* ---- values: results of futures (JSON-like: integers and lists)
\* FutureNotDone, caf.py:29
UNSET == [tag |-> "unset", n |-> 0, items |-> <<>>]
IntVal(k) == [tag |-> "int", n |-> k, items |-> <<>>]
ListVal(s) == [tag |-> "list", n |-> 0, items |-> s]

\* ---- hash ids.  SHA-1 is taken to be collision free: the digest of a text
\* is represented by the text itself, as a record.
NoHash == [k |-> "", r |-> "", n |-> 0, a |-> <<>>, keys |-> <<>>]
\* get_fullname, caf.py:275
get_fullname(r) == "rules:" \o r
\* (mutant) the hash ids of the arguments are left out of the hash
TaskHashOfName(r, hs) == [k |-> "task", r |-> get_fullname(r), n |-> 0, a |-> <<>>, keys |-> <<>>]

\* hash_obj/hash_str/hashid of create_task, caf.py:232-234
TaskHash(r, hs) == [k |-> "task", r |-> get_fullname(r), n |-> 0, a |-> hs, keys |-> <<>>]
\* Template._hashid, caf.py:99: "{}" + hash of the json string
TemplateHash(shape, n, hs) == [k |-> "{}" \o shape, r |-> "", n |-> n, a |-> hs, keys |-> <<>>]
\* Indexor._hashid, caf.py:140
IndexorHash(h, keys) == [k |-> "@", r |-> "", n |-> 0, a |-> <<h>>, keys |-> keys]

\* ---- Python objects the user passes: an int, a Future, a list of Futures
IntObj(k) == [o |-> "int", n |-> k, fs |-> <<>>]
FutObj(i) == [o |-> "fut", n |-> 0, fs |-> <<i>>]
ListObj(s) == [o |-> "list", n |-> 0, fs |-> s]

Range(s) == {s[i] : i \in DOMAIN s}

\* every enumeration of a finite set: the orders a Python set may iterate in
RECURSIVE Orders(_)
Orders(S) ==
    IF S = {} THEN {<<>>}
    ELSE UNION {{<<x>> \o o : o \in Orders(S \ {x})} : x \in S}

\* ---- the state record the operators work on
\* ret: the future the last constructor, rule call or subscript returned
State == [heap |-> heap, sess |-> sess, err |-> err, ret |-> 0, trace |-> trace]

Failing(st) == st.err # "none"
Raise(st, e) == [st EXCEPT !.err = e]
\* the rule and the wrapped arguments a create_task call was made with
Request(r, args) == [r |-> r, a |-> args]
Event(ev, fut, src) ==
    [ev |-> ev, fut |-> fut, src |-> src, h |-> NoHash, v |-> UNSET, req |-> Request("", <<>>)]
Log(st, e) == [st EXCEPT !.trace = Append(@, e)]

\* Future.done, caf.py:51
done(st, f) == st.heap[f].result # UNSET
\* Future.ready, caf.py:48
ready(st, f) == st.heap[f].pending = {}

EmptySession == [pending |-> {}, waiting |-> <<>>, tasks |-> [h \in {} |-> 0]]

BlankFuture ==
    [kind |-> "", hashid |-> NoHash, f |-> "", args |-> <<>>, keys |-> <<>>,
     shape |-> "", lit |-> 0,
     pending |-> {}, depants |-> {}, result |-> UNSET,
     done_callbacks |-> <<>>, ready_callbacks |-> <<>>,
     \* history of the object, for the properties
     rcreg |-> <<>>,    \* callbacks ever given to add_ready_callback
     rclog |-> <<>>,    \* ready callbacks invoked
     dclog |-> <<>>,    \* done callbacks invoked
     notes |-> <<>>,    \* futures dep_done was called with
     nrun |-> 0,        \* calls of Task.run that reached the rule function
     nenq |-> 0,        \* times appended to a waiting queue
     nset |-> 0,        \* times the result was assigned
     returned |-> 0]    \* the Future the rule function returned, 0 if none

\* (mutant) the dependencies are not recorded
FutureInitWithoutDeps(st, proto, deps) ==
    [st EXCEPT !.heap = Append(@, proto), !.ret = Len(st.heap) + 1]

\* Future.__init__, caf.py:34-43: the new object is heap[Len(heap) + 1]
Future__init__(st, proto, deps) ==
    LET id == Len(st.heap) + 1
        pend == {d \in deps : ~done(st, d)}
        h1 == [i \in 1..Len(st.heap) |->
                  IF i \in pend
                  THEN [st.heap[i] EXCEPT !.depants = @ \cup {id}]   \* add_depant
                  ELSE st.heap[i]]
    IN [st EXCEPT !.heap = Append(h1, [proto EXCEPT !.pending = pend]),
                  !.ret = id]

\* (mutant) the task stays in the pending set
TaskReadyKeepsPending(st, s, t) ==
    [st EXCEPT !.sess[s].waiting = Append(@, t), !.heap[t].nenq = @ + 1]

\* Session._task_ready, caf.py:226-228
_task_ready(st, s, t) ==
    IF t \notin st.sess[s].pending
    THEN Raise(st, "KeyError:_task_ready")
    ELSE [st EXCEPT !.sess[s].pending = @ \ {t},
                    !.sess[s].waiting = Append(@, t),
                    !.heap[t].nenq = @ + 1]

\* Future.result, caf.py:74-76, called from site, as [e, v]: the failed
\* assertion or the value
result(st, f, site) ==
    IF st.heap[f].result = UNSET
    THEN [e |-> "AssertionError:result@" \o site, v |-> UNSET]
    ELSE [e |-> "none", v |-> st.heap[f].result]

\* Template.substitute, caf.py:109-117.  self._futures (caf.py:98) is keyed by
\* hashid, so of several futures with one hashid an unspecified one is read.
substitute(st, t) ==
    LET me == st.heap[t]
        futs == Range(me.args)
        hs == {st.heap[x].hashid : x \in futs}
        dicts == {d \in [hs -> futs] : \A h \in hs : st.heap[d[h]].hashid = h}
        one(d) ==
            IF me.shape = "int" THEN [e |-> "none", v |-> IntVal(me.lit)]
            ELSE LET rs == [i \in DOMAIN me.args |->
                              result(st, d[st.heap[me.args[i]].hashid], "substitute")]
                 IN IF \E i \in DOMAIN rs : rs[i].e # "none"
                    THEN [e |-> "AssertionError:result@substitute", v |-> UNSET]
                    ELSE [e |-> "none", v |-> ListVal([i \in DOMAIN rs |-> rs[i].v])]
    IN {one(d) : d \in dicts}

\* obj[key] of Indexor.resolve
Subscript(r, key) ==
    IF r.e # "none" THEN r
    ELSE IF r.v.tag = "list" /\ key \in DOMAIN r.v.items
         THEN [e |-> "none", v |-> r.v.items[key]]
         ELSE [e |-> "LookupError", v |-> UNSET]

RECURSIVE Walk(_, _)
Walk(r, keys) == IF keys = <<>> THEN r ELSE Walk(Subscript(r, Head(keys)), Tail(keys))

\* Indexor.resolve, caf.py:152-156
resolve(st, x) == Walk(result(st, st.heap[x].args[1], "resolve"), st.heap[x].keys)

RECURSIVE set_result(_, _, _), dep_done(_, _, _), Notify(_, _, _),
          ReadyCallbacks(_, _, _), DoneCallbacks(_, _, _), Callback(_, _, _)

\* callback(self) for one registered callback cb of future f
Callback(st, f, cb) ==
    IF Failing(st) THEN {st}
    ELSE CASE cb.cb = "task_ready" ->                 \* Session._task_ready
                {_task_ready(st, cb.arg, f)}
           [] cb.cb = "substitute" ->                 \* lambda of caf.py:101-103
                UNION {IF r.e # "none" THEN {Raise(st, r.e)} ELSE set_result(st, f, r.v)
                       : r \in substitute(st, f)}
           [] cb.cb = "resolve" ->                    \* lambda of caf.py:141-143
                LET r == resolve(st, f)
                IN IF r.e # "none" THEN {Raise(st, r.e)} ELSE set_result(st, f, r.v)
           [] cb.cb = "adopt" ->                      \* lambda of caf.py:202
                LET r == result(st, f, "adopt")
                IN IF r.e # "none" THEN {Raise(st, r.e)} ELSE set_result(st, cb.arg, r.v)
           [] OTHER -> {st}

\* the loop of caf.py:71-72 from callback i on
ReadyCallbacks(st, f, i) ==
    IF Failing(st) \/ i > Len(st.heap[f].ready_callbacks) THEN {st}
    ELSE LET cb == st.heap[f].ready_callbacks[i]
             s1 == Log([st EXCEPT !.heap[f].rclog = Append(@, cb)], Event("ready_cb", f, i))
         IN UNION {ReadyCallbacks(s2, f, i + 1) : s2 \in Callback(s1, f, cb)}

\* the loop of caf.py:85-86 from callback i on
DoneCallbacks(st, f, i) ==
    IF Failing(st) \/ i > Len(st.heap[f].done_callbacks) THEN {st}
    ELSE LET cb == st.heap[f].done_callbacks[i]
             s1 == Log([st EXCEPT !.heap[f].dclog = Append(@, cb)], Event("done_cb", f, i))
         IN UNION {DoneCallbacks(s2, f, i + 1) : s2 \in Callback(s1, f, cb)}

\* (mutant) the ready callbacks run at every notification
DepDoneAlwaysCalls(st, d, f) ==
    IF Failing(st) THEN {st}
    ELSE LET s0 == Log([st EXCEPT !.heap[d].notes = Append(@, f)], Event("dep_done", d, f))
         IN IF f \notin s0.heap[d].pending
            THEN {Raise(s0, "KeyError:dep_done")}
            ELSE ReadyCallbacks([s0 EXCEPT !.heap[d].pending = @ \ {f}], d, 1)

\* Future.dep_done, caf.py:67-72: self is d, fut is f
dep_done(st, d, f) ==
    IF Failing(st) THEN {st}
    ELSE LET s0 == Log([st EXCEPT !.heap[d].notes = Append(@, f)], Event("dep_done", d, f))
         IN IF f \notin s0.heap[d].pending
            THEN {Raise(s0, "KeyError:dep_done")}
            ELSE LET s1 == [s0 EXCEPT !.heap[d].pending = @ \ {f}]
                 IN IF ready(s1, d) THEN ReadyCallbacks(s1, d, 1) ELSE {s1}

\* the loop of caf.py:83-84 over the dependents in the order ord
Notify(st, f, ord) ==
    IF Failing(st) \/ ord = <<>> THEN {st}
    ELSE UNION {Notify(s1, f, Tail(ord)) : s1 \in dep_done(st, Head(ord), f)}

\* (mutant) the done callbacks run before the dependents are notified
CallbacksThenDependents(st, f) ==
    UNION {UNION {Notify(s2, f, ord) : ord \in Orders(s2.heap[f].depants)} :
              s2 \in DoneCallbacks(st, f, 1)}

\* the two loops of caf.py:83-86
DependentsThenCallbacks(st, f) ==
    UNION {DoneCallbacks(s2, f, 1) :
              s2 \in UNION {Notify(st, f, ord) : ord \in Orders(st.heap[f].depants)}}

\* Future.set_result, caf.py:78-86
set_result(st, f, v) ==
    IF Failing(st) THEN {st}
    ELSE IF ~ready(st, f) THEN {Raise(st, "AssertionError:set_result:ready")}
    ELSE IF done(st, f) THEN {Raise(st, "AssertionError:set_result:done")}
    ELSE LET s1 == Log([st EXCEPT !.heap[f].result = v, !.heap[f].nset = @ + 1],
                       Event("set_result", f, 0))
         IN DependentsThenCallbacks(s1, f)

\* Future.add_ready_callback, caf.py:57-61
add_ready_callback(st, f, cb) ==
    IF Failing(st) THEN {st}
    ELSE LET s0 == [st EXCEPT !.heap[f].rcreg = Append(@, cb)]
         IN IF ready(s0, f)
            THEN Callback(Log([s0 EXCEPT !.heap[f].rclog = Append(@, cb)],
                              Event("ready_cb", f, 0)), f, cb)
            ELSE {[s0 EXCEPT !.heap[f].ready_callbacks = Append(@, cb)]}

\* Future.add_done_callback, caf.py:63-65
add_done_callback(st, f, cb) ==
    IF Failing(st) THEN st
    ELSE IF done(st, f) THEN Raise(st, "AssertionError:add_done_callback")
    ELSE [st EXCEPT !.heap[f].done_callbacks = Append(@, cb)]

CB(name, arg) == [cb |-> name, arg |-> arg]

\* Template.parse + Template.__init__, caf.py:95-103 and 119-132, of a non-Future obj
Template(st, obj) ==
    IF Failing(st) THEN {st}
    ELSE LET hs == [i \in DOMAIN obj.fs |-> st.heap[obj.fs[i]].hashid]
             proto == [BlankFuture EXCEPT !.kind = "Template",
                                          !.hashid = TemplateHash(obj.o, obj.n, hs),
                                          !.args = obj.fs, !.shape = obj.o, !.lit = obj.n]
             s1 == Future__init__(st, proto, Range(obj.fs))
         IN add_ready_callback(s1, s1.ret, CB("substitute", 0))

\* Indexor.__init__, caf.py:136-143
Indexor(st, task, keys) ==
    IF Failing(st) THEN {st}
    ELSE LET proto == [BlankFuture EXCEPT !.kind = "Indexor",
                                          !.hashid = IndexorHash(st.heap[task].hashid, keys),
                                          !.args = <<task>>, !.keys = keys]
             s1 == Future__init__(st, proto, {task})
         IN add_ready_callback(s1, s1.ret, CB("resolve", 0))

\* Task.__getitem__, caf.py:184-185, and Indexor.__getitem__, caf.py:145-146
getitem(st, i, key) ==
    IF st.heap[i].kind = "Task" THEN Indexor(st, i, <<key>>)
    ELSE Indexor(st, st.heap[i].args[1], Append(st.heap[i].keys, key))

\* wrap_input, caf.py:159-162; the future is left in ret
wrap_input(st, obj) ==
    IF Failing(st) THEN {st}
    ELSE IF obj.o = "fut" THEN {[st EXCEPT !.ret = obj.fs[1]]}
    ELSE Template(st, obj)

\* tuple(map(wrap_input, args)), caf.py:231, as records [st, args]
RECURSIVE WrapArgs(_, _, _)
WrapArgs(st, objs, acc) ==
    IF Failing(st) \/ objs = <<>> THEN {[st |-> st, args |-> acc]}
    ELSE UNION {WrapArgs(s1, Tail(objs), Append(acc, s1.ret)) : s1 \in wrap_input(st, Head(objs))}

\* Task.__init__, caf.py:175-182
Task(st, hashid, r, args) ==
    Future__init__(st, [BlankFuture EXCEPT !.kind = "Task", !.hashid = hashid,
                                           !.f = r, !.args = args], Range(args))

\* (mutant) every lookup misses: a Task is made on every call
LookupMisses(tasks, hashid) == 0

\* the lookup of caf.py:235-238: the registered task, or 0 for KeyError
Lookup(tasks, hashid) == IF hashid \in DOMAIN tasks THEN tasks[hashid] ELSE 0

\* self._tasks[hashid] = task, caf.py:242
Register(tasks, hashid, t) ==
    [h \in DOMAIN tasks \cup {hashid} |-> IF h = hashid THEN t ELSE tasks[h]]

\* Session.create_task, caf.py:230-243, on session s; the task is left in ret
create_task(st, s, r, objs) ==
    UNION {
        IF Failing(w.st) THEN {w.st}
        ELSE LET hashid == TaskHash(r, [i \in DOMAIN w.args |-> w.st.heap[w.args[i]].hashid])
                 found == Lookup(w.st.sess[s].tasks, hashid)
                 returns(x, t) == [Log(x, [Event("create_task", t, s) EXCEPT
                                               !.h = hashid, !.req = Request(r, w.args)])
                                   EXCEPT !.ret = t]
             IN IF found # 0 THEN {returns(w.st, found)}
                ELSE LET s1 == Task(w.st, hashid, r, w.args)
                         t == s1.ret
                         s2 == [s1 EXCEPT !.sess[s].pending = @ \cup {t}]
                     IN {IF Failing(s3) THEN s3
                         ELSE returns([s3 EXCEPT !.sess[s].tasks = Register(@, hashid, t)], t)
                         : s3 \in add_ready_callback(s2, t, CB("task_ready", s))}
        : w \in WrapArgs(st, objs, <<>>)}

\* Rule.__call__, caf.py:271-272, with Session.active, caf.py:258-261
Rule__call__(st, r, objs) ==
    IF Failing(st) THEN {st}
    ELSE IF active = 0 THEN {Raise(st, "AssertionError:active")}
    ELSE create_task(st, active, r, objs)

\* ---- rule functions.  What a rule function does when it runs is an input
\* of the model: it returns a plain value computed from its arguments
\* ("value"), or it calls the rule f without arguments and returns that task
\* ("task"), a list holding that task ("list") or item 0 of that task ("index").
\* The rule f itself returns a plain value, so that no task waits for itself.
Outs(r) == IF r = "f" THEN {"value"} ELSE {"value", "task", "list", "index"}
\* the int a rule function without arguments returns
Const(r) == CASE r = "f" -> 1 [] r = "g" -> 2 [] OTHER -> 3
\* the plain value of a rule function
Value(r, args) == IF args = <<>> THEN IntVal(Const(r)) ELSE ListVal(args)

\* self._f(*args), caf.py:199, then wrap_output, caf.py:165-171: the states
\* after it, with ret the Future returned (0: a plain value, in val)
RuleFunction(st, t, body, args) ==
    LET called == IF body # "value" THEN Rule__call__(st, "f", <<>>) ELSE {st}
        plain(x, v) == [st |-> [x EXCEPT !.ret = 0], val |-> v]
        future(x) == [st |-> x, val |-> UNSET]
        out(x) ==
            IF Failing(x) THEN {future(x)}
            ELSE CASE body = "value" -> {plain(x, Value(st.heap[t].f, args))}
                   [] body = "task" -> {future(x)}
                   [] body = "list" -> {future(y) : y \in Template(x, ListObj(<<x.ret>>))}
                   [] body = "index" -> {future(y) : y \in getitem(x, x.ret, 1)}
    IN UNION {out(x) : x \in called}

\* a Future object held as a value
FutVal(f) == [tag |-> "future", n |-> f, items |-> <<>>]

\* (mutant) the else of caf.py:203 is lost: the Future is also set as the result
FinishWithoutElse(st, t, v) ==
    IF st.ret # 0
    THEN set_result(add_done_callback([st EXCEPT !.heap[t].returned = st.ret],
                                      st.ret, CB("adopt", t)), t, FutVal(st.ret))
    ELSE set_result(st, t, v)

\* caf.py:200-204: the task follows the Future its rule returned (in ret), or
\* takes the plain value v as its result
Finish(st, t, v) ==
    IF st.ret # 0
    THEN {add_done_callback([st EXCEPT !.heap[t].returned = st.ret], st.ret, CB("adopt", t))}
    ELSE set_result(st, t, v)

\* Task.run, caf.py:195-204
run(st, t, body) ==
    IF Failing(st) THEN {st}
    ELSE IF ~ready(st, t) THEN {Raise(st, "AssertionError:run")}
    ELSE LET me == st.heap[t]
             rs == [i \in DOMAIN me.args |-> result(st, me.args[i], "run")]
         IN IF \E i \in DOMAIN rs : rs[i].e # "none"
            THEN {Raise(st, "AssertionError:result@run")}
            ELSE LET s1 == Log([st EXCEPT !.heap[t].nrun = @ + 1], Event("run", t, 0))
                 IN UNION {
                      IF Failing(o.st) THEN {o.st} ELSE Finish(o.st, t, o.val)
                      : o \in RuleFunction(s1, t, body, [i \in DOMAIN rs |-> rs[i].v])}

\* ---- the cellar (caflib/Cellar.py): the file store under objects/ and
\* the index of tasks, builds and targets.  An operation is an operator from
\* the record of the cellar to the record after the call, with what the call
\* returned in ret and the exception it raised in e.
MaxBuilds == 2        \* calls of store_build
MaxTime == 1          \* seconds the clock advances

\* State, Cellar.py:30-36
CLEAN == 0
DONE == 1
DONEREMOTE == 5
ERROR == -1
RUNNING == 2
INTERRUPTED == 3

\* contents of files, and get_hash, Cellar.py:47-52: SHA-1 is taken to be
\* collision free, the digest of a text is the text behind a "#"
Texts == {"x", "y"}
get_hash(text) == "#" \o text
FileHashes == {get_hash(text) : text \in Texts}
\* names of output files
OutNames == {"o"}
\* virtual paths of targets
Paths == {<<"a">>}

\* the tasks of the user's configuration, by hash: the command, the raw
\* inputs by file name, the children by name and the links to files of
\* children, target -> (child, source) (TaskObject, Cellar.py:55-61)
NoFiles == [n \in {} |-> ""]
TaskObjects ==
    [t1 |-> [command |-> "./run", inputs |-> [in |-> get_hash("x")],
             children |-> NoFiles, childlinks |-> [n \in {} |-> <<"", "">>]],
     t2 |-> [command |-> "./sum", inputs |-> [in |-> get_hash("y")],
             children |-> [c |-> "t1"], childlinks |-> [l |-> <<"c", "o">>]]]
TaskHashes == DOMAIN TaskObjects

Values(f) == {f[n] : n \in DOMAIN f}
Restrict(f, S) == [x \in DOMAIN f \cap S |-> f[x]]

\* a row of table tasks; the outputs of the task json are absent (has is
\* FALSE) until _update_outputs writes them
Row(state, has, outputs, created) ==
    [state |-> state, has |-> has, outputs |-> outputs, created |-> created]

\* the result of a call: the operation, its hash argument, what it returned
\* (a boolean, (hash, state) pairs, a content), the exception raised, and
\* for the properties its arguments and the state the task had before it
Out(op, h) ==
    [op |-> op, h |-> h, ok |-> FALSE, pairs |-> {}, text |-> "", e |-> "none",
     batch |-> {}, tgts |-> NoFiles, b |-> 0, old |-> CLEAN]

Cellar ==
    [objects |-> objects, objectdb |-> objectdb, taskrows |-> taskrows,
     builds |-> builds, targets |-> targets, retain |-> retain,
     ret |-> FALSE, e |-> "none"]

\* Cellar.__init__, Cellar.py:115-139, on a new directory
InitCellar ==
    /\ objects = NoFiles
    /\ objectdb = {}
    /\ taskrows = [h \in {} |-> Row(CLEAN, FALSE, NoFiles, 0)]
    /\ builds = <<>>
    /\ targets = {}
    /\ retain = FALSE
    /\ clock = 0
    /\ call = Out("init", "")

\* (mutant) store writes the file also when it exists
StoreOverwrites(c, hashid, text) ==
    IF hashid \in c.objectdb THEN [c EXCEPT !.ret = FALSE]
    ELSE [c EXCEPT !.objectdb = @ \cup {hashid},
                   !.objects = [h \in DOMAIN @ \cup {hashid} |->
                                    IF h = hashid THEN text ELSE @[h]],
                   !.ret = TRUE]

\* Cellar.store, Cellar.py:158-171 (store_text and store_file, 202-206)
store(c, hashid, text) ==
    IF hashid \in c.objectdb THEN [c EXCEPT !.ret = FALSE]
    ELSE LET c1 == [c EXCEPT !.objectdb = @ \cup {hashid}]
         IN IF hashid \in DOMAIN c1.objects THEN [c1 EXCEPT !.ret = FALSE]
            ELSE [c1 EXCEPT !.objects = [h \in DOMAIN @ \cup {hashid} |->
                                            IF h = hashid THEN text ELSE @[h]],
                            !.ret = TRUE]

\* store called for every file of files (hash -> text) in hs: the loops of
\* Cellar.py:240-248 and 295-296
RECURSIVE StoreAll(_, _, _)
StoreAll(c, files, hs) ==
    IF hs = {} THEN c
    ELSE LET h == CHOOSE x \in hs : TRUE
         IN StoreAll(store(c, h, files[h]), files, hs \ {h})

\* (mutant) insert or replace: the rows of the batch are written anew
StoreBuildReplaces(c, batch, tgts, inputs, answer, now) ==
    LET c1 == [c EXCEPT
                 !.taskrows = [h \in DOMAIN @ \cup batch |->
                                  IF h \in batch THEN Row(CLEAN, FALSE, NoFiles, now)
                                  ELSE @[h]],
                 !.builds = Append(@, now),
                 !.targets = @ \cup {[taskhash |-> tgts[p], buildid |-> Len(c.builds) + 1,
                                      path |-> p] : p \in DOMAIN tgts}]
        c2 == StoreAll(c1, inputs, DOMAIN inputs)
    IN IF batch \ DOMAIN c.taskrows # {} /\ answer # "y" THEN [c EXCEPT !.e = "SystemExit"]
       ELSE [c2 EXCEPT !.ret = {<<h, c2.taskrows[h].state>> : h \in batch}]

\* Cellar.store_build, Cellar.py:255-301: the batch of tasks, the targets
\* (path -> hash), the raw inputs (hash -> text) and the answer to "Continue?"
store_build(c, batch, tgts, inputs, answer, now) ==
    LET existing == batch \cap DOMAIN c.taskrows
        nnew == Cardinality(batch) - Cardinality(existing)
        buildid == Len(c.builds) + 1
        c1 == [c EXCEPT
                 !.taskrows = [h \in DOMAIN @ \cup batch |->
                                  IF h \in DOMAIN @ THEN @[h]
                                  ELSE Row(CLEAN, FALSE, NoFiles, now)],
                 !.builds = Append(@, now),
                 !.targets = @ \cup {[taskhash |-> tgts[p], buildid |-> buildid, path |-> p]
                                        : p \in DOMAIN tgts}]
        c2 == StoreAll(c1, inputs, DOMAIN inputs)
    IN IF nnew > 0 /\ answer # "y" THEN [c EXCEPT !.e = "SystemExit"]
       ELSE [c2 EXCEPT !.ret = {<<h, c2.taskrows[h].state>> : h \in batch}]

\* (mutant) the state is written and the outputs are not
UpdateStateOnly(c, hashid, state, outputs) ==
    IF hashid \notin DOMAIN c.taskrows THEN [c EXCEPT !.e = "AssertionError"]
    ELSE [c EXCEPT !.taskrows[hashid].state = state]

\* Cellar._update_outputs, Cellar.py:217-230
_update_outputs(c, hashid, state, outputs) ==
    IF hashid \notin DOMAIN c.taskrows THEN [c EXCEPT !.e = "AssertionError"]
    ELSE [c EXCEPT !.taskrows[hashid] =
              Row(state, TRUE, outputs, c.taskrows[hashid].created)]

\* (mutant) the row is updated and the output files are not stored
SealWithoutStore(c, hashid, outputs) ==
    _update_outputs(c, hashid, DONE, [n \in DOMAIN outputs |-> get_hash(outputs[n])])

\* Cellar.seal_task(hashid, outputs), Cellar.py:232-250: outputs is name -> content
seal_task(c, hashid, outputs) ==
    LET hashed_outputs == [n \in DOMAIN outputs |-> get_hash(outputs[n])]
        files == [h \in Values(hashed_outputs) |->
                     outputs[CHOOSE n \in DOMAIN outputs : hashed_outputs[n] = h]]
        c1 == StoreAll(c, files, DOMAIN files)
    IN IF DOMAIN outputs = {} THEN [c EXCEPT !.e = "AssertionError"]
       ELSE _update_outputs(c1, hashid, DONE, hashed_outputs)

\* (mutant) a reset that also frees the output files of the task
ResetTaskHard(c, hashid) ==
    IF hashid \notin DOMAIN c.taskrows THEN [c EXCEPT !.e = "AssertionError"]
    ELSE [c EXCEPT !.taskrows[hashid] = Row(CLEAN, TRUE, NoFiles, @.created),
                   !.objects = Restrict(@, DOMAIN @ \ Values(c.taskrows[hashid].outputs))]

\* Cellar.reset_task, Cellar.py:252-253
reset_task(c, hashid) == _update_outputs(c, hashid, CLEAN, NoFiles)

\* select id from builds order by created desc limit 1, Cellar.py:194, 373,
\* 382: SQL leaves the order of rows with equal keys open, so any build with
\* the greatest created can be the answer
LatestBuilds(c) ==
    {i \in DOMAIN c.builds : \A j \in DOMAIN c.builds : c.builds[j] <= c.builds[i]}

\* Cellar.get_build, Cellar.py:369-387, when the query answers build b
get_build(c, b) == {t \in c.targets : t.buildid = b}

\* the hashes of Cellar.get_tree, Cellar.py:394-409: the targets and what
\* is reached from them through children
RECURSIVE Closure(_, _)
Closure(hs, n) ==
    IF n = 0 THEN hs
    ELSE Closure(hs \cup UNION {Values(TaskObjects[h].children) : h \in hs}, n - 1)
get_tree(c, b) == Closure({t.taskhash : t \in get_build(c, b)}, Cardinality(TaskHashes))

\* the files the tasks hs refer to: their inputs and recorded outputs
FilesOf(c, hs) ==
    UNION {Values(TaskObjects[h].inputs) \cup
           (IF c.taskrows[h].has THEN Values(c.taskrows[h].outputs) ELSE {}) : h \in hs}

\* (mutant) gc forgets the recorded outputs of the tasks it keeps
GcForgetsOutputs(c, b) ==
    LET tree == get_tree(c, b)
        keep == tree \cup UNION {Values(TaskObjects[h].inputs) : h \in tree}
    IN [c EXCEPT !.retain = TRUE,
                 !.objects = Restrict(@, keep),
                 !.targets = {t \in @ : t.buildid = b},
                 !.taskrows = Restrict(@, keep)]

\* Cellar.gc, Cellar.py:173-200, when the latest build is answered as b (0:
\* there is no build)
gc(c, b) ==
    LET tree == get_tree(c, b)
        keep == tree \cup FilesOf(c, tree)
    IN IF ~(tree \subseteq DOMAIN c.taskrows) THEN [c EXCEPT !.e = "KeyError"]
       ELSE IF c.retain THEN [c EXCEPT !.e = "OperationalError"]
       ELSE [c EXCEPT !.retain = TRUE,
                      !.objects = Restrict(@, keep),
                      !.targets = {t \in @ : t.buildid = b},
                      !.taskrows = Restrict(@, keep)]

\* Cellar.get_file, Cellar.py:331-336: ret tells that the path is returned
get_file(c, hashid) ==
    IF hashid \notin c.objectdb /\ hashid \notin DOMAIN c.objects
    THEN [c EXCEPT !.e = "FileNotFoundError"]
    ELSE [c EXCEPT !.ret = TRUE]

\* the new state of the cellar after a call
CommitCellar(c, o) ==
    /\ objects' = c.objects
    /\ objectdb' = c.objectdb
    /\ taskrows' = c.taskrows
    /\ builds' = c.builds
    /\ targets' = c.targets
    /\ retain' = c.retain
    /\ call' = o
    /\ UNCHANGED <<vars, past, co, graph, misc>>

\* store(hashid, text=text) called by a user of the cellar
Store(hashid, text) ==
    LET c == store(Cellar, hashid, text)
    IN /\ CommitCellar(c, [Out("store", hashid) EXCEPT !.ok = c.ret, !.text = text])
       /\ UNCHANGED clock

\* a new process opens the cellar: Cellar.__init__, Cellar.py:115-139
Reopen ==
    /\ CommitCellar([Cellar EXCEPT !.objectdb = {}, !.retain = FALSE], Out("init", ""))
    /\ UNCHANGED clock

\* the builds a configuration can hand to store_build: a batch of tasks with
\* their children, targets among them, and the raw inputs of the batch
Batches == {B \in SUBSET TaskHashes :
               B # {} /\ \A h \in B : Values(TaskObjects[h].children) \subseteq B}
Inputs(B) ==
    [h \in UNION {Values(TaskObjects[t].inputs) : t \in B} |->
        CHOOSE text \in Texts : get_hash(text) = h]

\* store_build called dt seconds after the last call of it
StoreBuild(batch, tgts, answer, dt) ==
    LET c == store_build(Cellar, batch, tgts, Inputs(batch), answer, clock + dt)
    IN /\ Len(builds) < MaxBuilds
       /\ clock + dt <= MaxTime
       /\ CommitCellar(c, [Out("store_build", "") EXCEPT
                              !.e = c.e, !.batch = batch, !.tgts = tgts,
                              !.pairs = IF c.e = "none" THEN c.ret ELSE {}])
       /\ clock' = clock + dt

SealTask(hashid, outputs) ==
    LET c == seal_task(Cellar, hashid, outputs)
    IN /\ CommitCellar(c, [Out("seal_task", hashid) EXCEPT !.e = c.e])
       /\ UNCHANGED clock

ResetTask(hashid) ==
    LET c == reset_task(Cellar, hashid)
    IN /\ CommitCellar(c, [Out("reset_task", hashid) EXCEPT
                              !.e = c.e,
                              !.old = IF c.e = "none" THEN taskrows[hashid].state ELSE CLEAN])
       /\ UNCHANGED clock

Gc(b) ==
    LET c == gc(Cellar, b)
    IN /\ b \in (IF builds = <<>> THEN {0} ELSE LatestBuilds(Cellar))
       /\ CommitCellar(c, [Out("gc", "") EXCEPT !.e = c.e, !.b = b])
       /\ UNCHANGED clock

GetFile(hashid) ==
    LET c == get_file(Cellar, hashid)
    IN /\ CommitCellar(c, [Out("get_file", hashid) EXCEPT !.e = c.e, !.ok = c.ret])
       /\ UNCHANGED clock

NextCellar ==
    \/ \E h \in FileHashes, text \in Texts : Store(h, text)
    \/ \E B \in Batches : \E tgts \in UNION {[P -> B] : P \in SUBSET Paths \ {{}}}, answer \in {"y", "n"}, dt \in {0, 1} :
              StoreBuild(B, tgts, answer, dt)
    \/ \E h \in TaskHashes, outputs \in UNION {[N -> Texts] : N \in SUBSET OutNames} : SealTask(h, outputs)
    \/ \E h \in TaskHashes : ResetTask(h)
    \/ \E b \in 0..MaxBuilds : Gc(b)
    \/ \E h \in FileHashes : GetFile(h)
    \/ Reopen

\* ---- Cellar.checkout, Cellar.py:411-454.  A path is the sequence of its
\* names under root.  The directory is a function from the real paths that
\* exist to their entries: a directory (with the task whose files it holds,
\* "" when it was made as a parent only) or a symlink to a path.
Dir(task) == [kind |-> "dir", to |-> <<>>, task |-> task]
Link(to) == [kind |-> "link", to |-> to, task |-> ""]
Front(path) == SubSeq(path, 1, Len(path) - 1)

\* the real path of a path: the symlinks on the way are followed
RECURSIVE Real(_, _)
Real(fs, path) ==
    IF path = <<>> THEN <<>>
    ELSE LET q == Append(Real(fs, Front(path)), path[Len(path)])
         IN IF q \in DOMAIN fs /\ fs[q].kind = "link" THEN Real(fs, fs[q].to) ELSE q

\* Path.exists
Exists(fs, path) == path = <<>> \/ Real(fs, path) \in DOMAIN fs

Put(fs, q, entry) == [x \in DOMAIN fs \cup {q} |-> IF x = q THEN entry ELSE fs[x]]

\* Path.mkdir(parents=True, exist_ok=True)
RECURSIVE MkdirParents(_, _)
MkdirParents(fs, path) ==
    IF Exists(fs, path) THEN fs
    ELSE LET f1 == MkdirParents(fs, Front(path))
         IN Put(f1, Append(Real(f1, Front(path)), path[Len(path)]), Dir(""))

\* match_glob(path, patt) of caflib.Glob: "*" is one name, "**" any names
match_glob(path, patt) ==
    \/ patt = <<"**">>
    \/ /\ Len(patt) = Len(path)
       /\ \A i \in DOMAIN patt : patt[i] \in {"*", path[i]}

\* an entry made in the directory of a task: a copy of the file src of the
\* cellar or a symlink to src
Entry(name, kind, src) == [name |-> name, kind |-> kind, src |-> src]

\* Cellar.get_task, Cellar.py:303-308: the task of the json of the row, in
\* which outputs is None (has is FALSE) until the outputs are written
get_task(c, hashid) ==
    [command |-> TaskObjects[hashid].command,
     inputs |-> TaskObjects[hashid].inputs,
     children |-> TaskObjects[hashid].children,
     childlinks |-> TaskObjects[hashid].childlinks,
     has |-> c.taskrows[hashid].has,
     outputs |-> c.taskrows[hashid].outputs]

\* x in task, for a string x (Cellar.py:436): TaskObject is a tuple, so
\* the test compares x to the values of the fields, and of these only the
\* command is a string
TupleContains(task, x) == x = task.command

\* Cellar.checkout_task(task, path, resolve=False, nolink), Cellar.py:338-367:
\* the entries made in the directory, and the exception of get_file that
\* ends the call after the entries made before it
checkout_task(c, task, nolink) ==
    LET copier == IF nolink THEN "copy" ELSE "symlink"
        Found(hs) == \A h \in hs : get_file(c, h).e = "none"
        ins == {Entry(n, copier, task.inputs[n]) : n \in DOMAIN task.inputs}
        links == {Entry(n, "symlink", task.childlinks[n][1] \o "/" \o task.childlinks[n][2]) :
                     n \in DOMAIN task.childlinks}
        outs == IF task.has
                THEN {Entry(n, copier, task.outputs[n]) : n \in DOMAIN task.outputs}
                ELSE {}
    IN IF ~Found(Values(task.inputs)) THEN [e |-> "FileNotFoundError", files |-> {}]
       ELSE IF task.has /\ ~Found(Values(task.outputs))
            THEN [e |-> "FileNotFoundError", files |-> ins \cup links]
            ELSE [e |-> "none", files |-> ins \cup links \cup outs]

\* no checkout runs: fs are the directories and directory symlinks under
\* root, files the entries of each directory of a task
NoCheckout ==
    [pc |-> "idle", stack |-> <<>>, paths |-> NoFiles, fs |-> NoFiles,
     patt |-> <<>>, finished |-> FALSE, nolink |-> FALSE, b |-> 0,
     files |-> [q \in {} |-> {}], seen |-> {}, e |-> "none"]

\* the body of the loop for a target that matches, Cellar.py:438-453
Materialize(c, item) ==
    LET f1 == MkdirParents(c.fs, Front(item.path))
        q == Append(Real(f1, Front(item.path)), item.path[Len(item.path)])
    IN IF item.h \in DOMAIN c.paths
       THEN IF Exists(f1, item.path) THEN [c EXCEPT !.fs = f1]
            ELSE [c EXCEPT !.fs = Put(f1, q, Link(c.paths[item.h]))]
       ELSE IF Exists(c.fs, item.path)
            THEN [c EXCEPT !.e = "FileExistsError", !.pc = "done"]
            ELSE LET made == checkout_task(Cellar, get_task(Cellar, item.h), c.nolink)
                     c2 == [c EXCEPT !.fs = Put(f1, q, Dir(item.h)),
                                     !.files = Put(@, q, made.files)]
                 IN IF made.e # "none" THEN [c2 EXCEPT !.e = made.e, !.pc = "done"]
                    ELSE [c2 EXCEPT !.paths = Put(@, item.h, item.path)]

\* one iteration of the loop of Cellar.py:424-453
checkout_step(c) ==
    LET item == c.stack[Len(c.stack)]
        kids == TaskObjects[item.h].children
        names == CHOOSE o \in Orders(DOMAIN kids) : TRUE
        pushed == [i \in DOMAIN names |->
                      [h |-> kids[names[i]], path |-> Append(item.path, names[i])]]
        c1 == [c EXCEPT !.stack = Front(@) \o pushed]
    IN IF ~match_glob(item.path, c.patt) THEN c1
       ELSE IF c.finished /\ ~TupleContains(get_task(Cellar, item.h), "outputs") THEN c1
       ELSE Materialize([c1 EXCEPT !.seen = @ \cup {item}], item)

\* checkout(root, [patt], 0, finished, nolink) on a root that does not
\* exist: get_build answers the targets of build b in the order order
CheckoutBegin(b, order, patt, finished, nolink) ==
    /\ co.pc = "idle"
    /\ b \in LatestBuilds(Cellar)
    /\ order \in Orders(get_build(Cellar, b))
    /\ co' = [NoCheckout EXCEPT
                !.pc = "loop", !.patt = patt, !.b = b,
                !.finished = finished, !.nolink = nolink,
                !.stack = [i \in DOMAIN order |->
                              [h |-> order[i].taskhash, path |-> order[i].path]]]
    /\ UNCHANGED <<vars, past, cellar, graph, misc>>

CheckoutStep ==
    /\ co.pc = "loop"
    /\ co' = IF co.stack = <<>> THEN [co EXCEPT !.pc = "done"] ELSE checkout_step(co)
    /\ UNCHANGED <<vars, past, cellar, graph, misc>>

\* the builds checked out have targets at paths of one and two names
NextCheckout ==
    \/ \E B \in Batches : \E P \in SUBSET {<<"a">>, <<"b">>, <<"a", "c">>} \ {{}} :
       \E tgts \in [P -> B] :
          builds = <<>> /\ StoreBuild(B, tgts, "y", 0)
    \/ \E h \in TaskHashes :
          co.pc = "idle" /\ h \in DOMAIN taskrows /\ ~taskrows[h].has /\ SealTask(h, [o |-> "x"])
    \/ \E b \in 1..MaxBuilds : \E order \in Orders(get_build(Cellar, b)), patt \in {<<"**">>, <<"*">>, <<"*", "*">>} :
       \E finished, nolink \in BOOLEAN :
          CheckoutBegin(b, order, patt, finished, nolink)
    \/ CheckoutStep

\* ---- traverse_async, caf2/graph.py:55-118.  The generator runs up to a
\* yield (Step), its consumer runs, and the generator is resumed (Resume);
\* the executions started run apart from it and put their results on the
\* queue done whenever the event loop lets them (Deliver).
MaxStart == 2         \* length of the start nodes

Nodes == {"a", "b", "c"}
\* edges_from: b is reached from a and from c
Edges == [a |-> {"b"}, b |-> {}, c |-> {"b"}]
\* the nodes an execution of a node can generate
Generated == [a |-> {"c"}, b |-> {}, c |-> {"b"}]

\* Action, graph.py:24-27
RESULTS == 0
EXECUTE == 1
TRAVERSE == 2
\* default_priority, graph.py:30
default_priority == <<RESULTS, EXECUTE, TRAVERSE>>

\* SetDeque.__init__, graph.py:35-37, with the sequence of the deque
SetDeque == [q |-> <<>>, _set |-> {}]

\* SetDeque.extend, graph.py:39-42: order is the order in which the set
\* xs - _set is iterated
SetDeque_extend(d, xs, order) == [q |-> d.q \o order, _set |-> d._set \cup xs]
ExtendOrders(d, xs) == Orders(xs \ d._set)

\* SetDeque.pop and popleft, graph.py:44-52
SetDeque_pop(d) ==
    [x |-> d.q[Len(d.q)],
     d |-> [q |-> SubSeq(d.q, 1, Len(d.q) - 1), _set |-> d._set \ {d.q[Len(d.q)]}]]
SetDeque_popleft(d) ==
    [x |-> Head(d.q), d |-> [q |-> Tail(d.q), _set |-> d._set \ {Head(d.q)}]]

\* (mutant) extend_from without its filter
ExtendFromAll(src, filter) == src

\* extend_from, graph.py:18-21: what is handed to seq.extend
extend_from(src, filter) == {x \in src : x \notin filter}

\* the local variables of traverse_async, graph.py:75-78, with the step
\* chosen (action, node), the executions that have not put their result
\* (flying), and for the properties: how often each node was yielded in a
\* TRAVERSE and in an EXECUTE step, the nodes handed to schedule and those
\* it appended, the nodes delivered by results, the executions started and
\* the results consumed, and what was actionable when the step was chosen
NoTraverse ==
    [pc |-> "idle", start |-> <<>>, sentinel |-> {}, depth |-> FALSE,
     priority |-> default_priority,
     visited |-> {}, to_visit |-> SetDeque, to_execute |-> <<>>, done |-> <<>>,
     executing |-> 0, executed |-> 0,
     action |-> RESULTS, node |-> "", flying |-> {},
     ntraversed |-> [n \in Nodes |-> 0], nexecuted |-> [n \in Nodes |-> 0],
     hooked |-> {}, scheduled |-> {}, delivered |-> {},
     nstarted |-> 0, nconsumed |-> 0, was |-> {}]

\* no scheduler drives the traversal.  With one: the command it serves
\* ("make" with a threshold of errors in a row, "eval" of a session with
\* an exception handler that returns handler), the state of each task that
\* is not running, the errors in a row, the exception raised to the caller,
\* and whether the session is the active one
NoScheduler ==
    [mode |-> "none", maxerror |-> 0, handler |-> FALSE,
     state |-> [n \in Nodes |-> "CLEAN"], nerror |-> 0, e |-> "none",
     active |-> FALSE]

\* (mutant) a result on the queue does not make RESULTS actionable
ActionableWithoutResults(t) ==
    {x \in {EXECUTE} : t.to_execute # <<>>}
    \cup {x \in {TRAVERSE} : t.to_visit.q # <<>>}

\* actionable, graph.py:79-83: the actions that are actionable
actionable(t) ==
    {x \in {RESULTS} : t.done # <<>>}
    \cup {x \in {EXECUTE} : t.to_execute # <<>>}
    \cup {x \in {TRAVERSE} : t.to_visit.q # <<>>}

\* the for loop of graph.py:86-92: the first actionable action of the
\* priority, RESULTS if there is none ("break" ends the traversal)
RECURSIVE FirstOf(_, _)
FirstOf(priority, able) ==
    IF priority = <<>> THEN RESULTS
    ELSE IF Head(priority) \in able THEN Head(priority)
    ELSE FirstOf(Tail(priority), able)

\* traverse_async up to the loop, graph.py:75-84
traverse_begin(start, sentinel, depth, priority, order) ==
    [NoTraverse EXCEPT !.pc = "loop", !.start = start, !.sentinel = sentinel,
                       !.depth = depth, !.priority = priority,
                       !.to_visit = SetDeque_extend(SetDeque, Range(start), order)]

\* graph.py:85-103, 110-111, 115: from the head of the loop to the yield
step(t) ==
    LET able == actionable(t)
        action == FirstOf(t.priority, able)
        t1 == [t EXCEPT !.pc = "yield", !.action = action, !.node = "", !.was = able]
    IN IF able = {} /\ t.executing = 0 THEN [t EXCEPT !.pc = "end", !.was = able]
       ELSE IF action = TRAVERSE
       THEN LET p == IF t.depth THEN SetDeque_pop(t.to_visit) ELSE SetDeque_popleft(t.to_visit)
            IN [t1 EXCEPT !.node = p.x, !.to_visit = p.d, !.ntraversed[p.x] = @ + 1]
       ELSE IF action = EXECUTE
       THEN [t1 EXCEPT !.node = Head(t.to_execute), !.to_execute = Tail(@),
                       !.nexecuted[Head(t.to_execute)] = @ + 1]
       ELSE t1

\* (mutant) a sentinel is treated as any other node
TraverseNodeNoSentinel(t, hook, order) ==
    LET t1 == [t EXCEPT !.pc = "loop", !.visited = @ \cup {t.node}]
        new == extend_from(Edges[t.node], t1.visited)
    IN [t1 EXCEPT !.hooked = @ \cup {t.node},
                  !.scheduled = IF hook THEN @ \cup {t.node} ELSE @,
                  !.to_execute = IF hook THEN Append(@, t.node) ELSE @,
                  !.to_visit = SetDeque_extend(@, new, order)]

\* (mutant) the node is scheduled and its edges are not followed
TraverseNodeLeaf(t, hook, order) ==
    LET t1 == [t EXCEPT !.pc = "loop", !.visited = @ \cup {t.node}]
    IN IF t.node \in t.sentinel THEN t1
       ELSE [t1 EXCEPT !.hooked = @ \cup {t.node},
                       !.scheduled = IF hook THEN @ \cup {t.node} ELSE @,
                       !.to_execute = IF hook THEN Append(@, t.node) ELSE @]

\* graph.py:104-108: after the yield of a TRAVERSE step; the hook schedule
\* appends the node (hook) or does not, order is the order of the new nodes
traverse_node(t, hook, order) ==
    LET t1 == [t EXCEPT !.pc = "loop", !.visited = @ \cup {t.node}]
        new == extend_from(Edges[t.node], t1.visited)
    IN IF t.node \in t.sentinel THEN t1
       ELSE [t1 EXCEPT !.hooked = @ \cup {t.node},
                       !.scheduled = IF hook THEN @ \cup {t.node} ELSE @,
                       !.to_execute = IF hook THEN Append(@, t.node) ELSE @,
                       !.to_visit = SetDeque_extend(@, new, order)]

\* done.put_nowait(payload), called by an execution
put_nowait(t, node, payload) ==
    [t EXCEPT !.done = Append(@, payload), !.flying = @ \ {node},
              !.delivered = @ \cup payload]

\* graph.py:112-113: after the yield of an EXECUTE step; the executor
\* returns with the execution still running
execute_node(t) ==
    [t EXCEPT !.pc = "loop", !.executing = @ + 1, !.nstarted = @ + 1,
              !.flying = @ \cup {t.node}]

\* (mutant) the result is merged and the counter of executions is kept
ResultsKeepsExecuting(t, order) ==
    [t EXCEPT !.pc = "loop", !.done = Tail(@),
              !.to_visit = SetDeque_extend(@, extend_from(Head(t.done), t.visited), order),
              !.executed = @ + 1, !.nconsumed = @ + 1]

\* graph.py:116-118: after the yield of a RESULTS step, when done.get()
\* returns
results(t, order) ==
    [t EXCEPT !.pc = "loop", !.done = Tail(@),
              !.to_visit = SetDeque_extend(@, extend_from(Head(t.done), t.visited), order),
              !.executing = @ - 1, !.executed = @ + 1, !.nconsumed = @ + 1]

TraverseBegin(start, sentinel, depth, priority) ==
    /\ trav.pc = "idle"
    /\ \E order \in ExtendOrders(SetDeque, Range(start)) :
          trav' = traverse_begin(start, sentinel, depth, priority, order)
    /\ UNCHANGED <<vars, past, cellar, co, sch, misc>>

Step ==
    /\ trav.pc = "loop"
    /\ trav' = step(trav)
    /\ UNCHANGED <<vars, past, cellar, co, sch, misc>>

Resume ==
    /\ trav.pc = "yield"
    /\ \/ /\ trav.action = TRAVERSE
          /\ \E hook \in BOOLEAN :
             \E order \in ExtendOrders(trav.to_visit, extend_from(Edges[trav.node], trav.visited \cup {trav.node})) :
                trav' = traverse_node(trav, hook, order)
       \/ /\ trav.action = EXECUTE
          /\ trav' = execute_node(trav)
       \/ /\ trav.action = RESULTS
          /\ trav.done # <<>>
          /\ \E order \in ExtendOrders(trav.to_visit, extend_from(Head(trav.done), trav.visited)) :
                trav' = results(trav, order)
    /\ UNCHANGED <<vars, past, cellar, co, sch, misc>>

\* an execution puts its result, the nodes it generated, on the queue
Deliver(node, payload) ==
    /\ node \in trav.flying
    /\ trav' = put_nowait(trav, node, payload)
    /\ UNCHANGED <<vars, past, cellar, co, sch, misc>>

NextTraverse ==
    \/ \E n \in 1..MaxStart : \E start \in [1..n -> Nodes] :
       \E sentinel \in SUBSET Nodes, depth \in BOOLEAN :
       \E priority \in Orders({RESULTS, EXECUTE, TRAVERSE}) :
          TraverseBegin(start, sentinel, depth, priority)
    \/ Step
    \/ Resume
    \/ \E node \in Nodes : \E payload \in SUBSET Generated[node] : Deliver(node, payload)

\* ---- the scheduler that drives traverse_async: caf make (Scheduler of
\* caf/scheduler.py) and Session.eval_async with the plugin Parallel.  It
\* schedules every task, its executor catches what the task raises, and a
\* task that runs is one whose result is not yet on the queue.
MaxError == 1         \* thresholds of errors in a row

TaskState(n) == IF n \in trav.flying THEN "RUNNING" ELSE sch.state[n]

\* make --maxerror, or eval_async(..., exception_handler) in a with block
\* of a Session
Drive(start, mode, maxerror, handler) ==
    /\ trav.pc = "idle"
    /\ \E order \in ExtendOrders(SetDeque, Range(start)) :
          trav' = traverse_begin(start, {}, FALSE, default_priority, order)
    /\ sch' = [NoScheduler EXCEPT !.mode = mode, !.maxerror = maxerror,
                                  !.handler = handler, !.active = (mode = "eval")]
    /\ UNCHANGED <<vars, past, cellar, co, misc>>

\* the executor of a task returns: the task is DONE and the nodes it
\* generated go to the results queue
Succeed(node, payload) ==
    /\ node \in trav.flying
    /\ trav' = put_nowait(trav, node, payload)
    /\ sch' = [sch EXCEPT !.state[node] = "DONE", !.nerror = 0]
    /\ UNCHANGED <<vars, past, cellar, co, misc>>

\* (mutant) the handler is asked and the exception is suppressed anyway
FailSuppressed(node) ==
    /\ node \in trav.flying
    /\ trav.pc \in {"loop", "yield", "aborted"}
    /\ trav' = put_nowait(trav, node, {})
    /\ sch' = [sch EXCEPT !.state[node] = "ERROR", !.nerror = @ + 1]
    /\ UNCHANGED <<vars, past, cellar, co, misc>>

\* the executor of a task raises: the error is recorded, and the task is
\* given back with no new nodes, unless the handler of eval does not return
\* true, when the exception goes to the caller of eval through the with
\* block
Fail(node) ==
    /\ node \in trav.flying
    /\ trav.pc \in {"loop", "yield", "aborted"}
    /\ IF sch.mode = "eval" /\ ~sch.handler
       THEN /\ trav' = [trav EXCEPT !.pc = "raised", !.flying = @ \ {node}]
            /\ sch' = [sch EXCEPT !.state[node] = "ERROR", !.nerror = @ + 1,
                                  !.e = "Exception", !.active = FALSE]
       ELSE /\ trav' = put_nowait(trav, node, {})
            /\ sch' = [sch EXCEPT !.state[node] = "ERROR", !.nerror = @ + 1]
    /\ UNCHANGED <<vars, past, cellar, co, misc>>

\* (mutant) make gives up when the errors in a row reach the threshold
AbortAtThreshold ==
    /\ sch.mode = "make"
    /\ trav.pc = "loop"
    /\ sch.nerror >= sch.maxerror
    /\ trav' = [trav EXCEPT !.pc = "aborted"]
    /\ sch' = [sch EXCEPT !.e = "SystemExit"]
    /\ UNCHANGED <<vars, past, cellar, co, misc>>

\* make gives up: more errors in a row than the threshold
Abort ==
    /\ sch.mode = "make"
    /\ trav.pc = "loop"
    /\ sch.nerror > sch.maxerror
    /\ trav' = [trav EXCEPT !.pc = "aborted"]
    /\ sch' = [sch EXCEPT !.e = "SystemExit"]
    /\ UNCHANGED <<vars, past, cellar, co, misc>>

\* (mutant) a cancel that is noted and leaves the traversal running
CancelNoted ==
    /\ sch.mode = "eval"
    /\ trav.pc \in {"loop", "yield"}
    /\ sch.e = "none"
    /\ sch' = [sch EXCEPT !.e = "CancelledError", !.active = FALSE]
    /\ UNCHANGED <<vars, past, cellar, co, trav, misc>>

\* the task of eval_async is cancelled: the ready tasks are dropped, the
\* running ones are cancelled and are INTERRUPTED, CancelledError goes to
\* the caller through the with block
Cancel ==
    /\ sch.mode = "eval"
    /\ trav.pc \in {"loop", "yield"}
    /\ sch.e = "none"
    /\ trav' = [trav EXCEPT !.pc = "cancelled", !.to_execute = <<>>, !.flying = {}]
    /\ sch' = [sch EXCEPT !.e = "CancelledError", !.active = FALSE,
                          !.state = [n \in Nodes |->
                                        IF n \in trav.flying THEN "INTERRUPTED" ELSE @[n]]]
    /\ UNCHANGED <<vars, past, cellar, co, misc>>

\* eval_async returns and the with block ends
Return ==
    /\ sch.mode = "eval"
    /\ trav.pc = "end"
    /\ sch.active
    /\ sch' = [sch EXCEPT !.active = FALSE]
    /\ UNCHANGED <<vars, past, cellar, co, trav, misc>>

NextScheduler ==
    \/ \E n \in 1..MaxStart : \E start \in [1..n -> Nodes] :
          \/ \E maxerror \in 0..MaxError : Drive(start, "make", maxerror, FALSE)
          \/ \E handler \in BOOLEAN : Drive(start, "eval", 0, handler)
    \/ (sch.mode = "make" => sch.nerror <= sch.maxerror) /\ Step
    \/ Resume
    \/ \E node \in Nodes : \E payload \in SUBSET Generated[node] : Succeed(node, payload)
    \/ \E node \in Nodes : Fail(node)
    \/ Abort
    \/ Cancel
    \/ Return

\* ---- traverse, caf2/graph.py:121-135: the generator up to each yield.
\* nyield counts how often each node was yielded.
NoSync ==
    [pc |-> "idle", start |-> <<>>, sentinel |-> {}, depth |-> FALSE,
     visited |-> {}, queue |-> <<>>, node |-> "", nyield |-> [n \in Nodes |-> 0]]

\* graph.py:126-128
sync_begin(start, sentinel, depth) ==
    [NoSync EXCEPT !.pc = "loop", !.start = start, !.sentinel = sentinel,
                   !.depth = depth, !.queue = start]

\* graph.py:133-135, after the yield of node: order is the order of
\* edges_from(node)
sync_expand(t, order) ==
    IF t.node = "" \/ t.node \in t.sentinel THEN t
    ELSE [t EXCEPT !.queue = @ \o SelectSeq(order, LAMBDA m : m \notin t.visited)]

\* graph.py:129-132: the next node is taken and yielded
sync_next(t) ==
    IF t.queue = <<>> THEN [t EXCEPT !.pc = "end", !.node = ""]
    ELSE LET n == IF t.depth THEN t.queue[Len(t.queue)] ELSE Head(t.queue)
         IN [t EXCEPT !.queue = IF t.depth THEN SubSeq(@, 1, Len(@) - 1) ELSE Tail(@),
                      !.visited = @ \cup {n}, !.node = n, !.nyield[n] = @ + 1]

SyncBegin(start, sentinel, depth) ==
    /\ sync.pc = "idle"
    /\ sync' = sync_begin(start, sentinel, depth)
    /\ UNCHANGED <<base, conf, rst, workers>>

\* the consumer asks for the next node
SyncStep ==
    /\ sync.pc = "loop"
    /\ \E order \in Orders(IF sync.node = "" THEN {} ELSE Edges[sync.node]) :
          sync' = sync_next(sync_expand(sync, order))
    /\ UNCHANGED <<base, conf, rst, workers>>

NextSync ==
    \/ \E n \in 1..MaxStart : \E start \in [1..n -> Nodes] :
       \E sentinel \in SUBSET Nodes, depth \in BOOLEAN :
          SyncBegin(start, sentinel, depth)
    \/ SyncStep

\* ---- Context and TaskNode, caflib/Configure.py: the tasks of a cscript,
\* their children, the order of the tasks and the hashes of the sealed ones
NumTaskNodes == 3     \* tasks that the cscript creates
TaskNodes == 1..NumTaskNodes
Names == {"x", "y"}
MaxEdges == 3         \* calls of add_child that succeed

\* Configure.py:95-102, 258-266: the tasks in the order of their creation;
\* rows is the column state of the cellar for each task (ERROR: no row)
NoConf ==
    [pc |-> "build", tasks |-> [i \in 1..NumTaskNodes |-> i],
     children |-> [t \in TaskNodes |-> <<>>], blocking |-> [t \in TaskNodes |-> {}],
     parents |-> [t \in TaskNodes |-> <<>>], hashes |-> {},
     rows |-> [t \in TaskNodes |-> ERROR], sealed |-> {}, op |-> "none", e |-> "none"]

\* the children of a task node as the dict keeps them: pairs name, task
ChildNames(c, t) == {c.children[t][k][1] : k \in 1..Len(c.children[t])}

ChildTasks(c, t) == {c.children[t][k][2] : k \in 1..Len(c.children[t])}

\* Configure.py:116-135; error() ends the program
add_child(c, self, task, name, blocks) ==
    IF self = task THEN [c EXCEPT !.op = "add_child", !.e = "itself", !.pc = "exit"]
    ELSE IF name \in ChildNames(c, self)
    THEN [c EXCEPT !.op = "add_child", !.e = "duplicate", !.pc = "exit"]
    ELSE [c EXCEPT !.op = "add_child", !.e = "none",
                   !.children[self] = Append(@, <<name, task>>),
                   !.blocking[self] = IF blocks THEN @ \cup {name} ELSE @,
                   !.parents[task] = Append(@, self)]

\* Configure.py:307: idxs
idxs(tasks, t) == CHOOSE i \in 1..Len(tasks) : tasks[i] = t

\* Configure.py:322-325: the loop over the children of the node taken
RECURSIVE sort_children(_, _, _, _)
sort_children(chs, nparents, roots, cnt) ==
    IF chs = <<>> THEN [roots |-> roots, cnt |-> cnt]
    ELSE LET child == Head(chs)
             cnt1 == [cnt EXCEPT ![child] = @ + 1]
         IN sort_children(Tail(chs), nparents,
                          IF cnt1[child] = nparents[child] THEN Append(roots, child)
                          ELSE roots,
                          cnt1)

\* Configure.py:319-325 with queue.append(node) in place of queue.insert(0, node)
RECURSIVE SortLoopAppend(_, _, _, _, _)
SortLoopAppend(children, nparents, roots, queue, cnt) ==
    IF roots = <<>> THEN [queue |-> queue, cnt |-> cnt]
    ELSE LET node == roots[Len(roots)]
             r == sort_children(children[node], nparents,
                                SubSeq(roots, 1, Len(roots) - 1), cnt)
         IN SortLoopAppend(children, nparents, r.roots, Append(queue, node), r.cnt)

\* Configure.py:319-325: the loop while roots
RECURSIVE sort_loop(_, _, _, _, _)
sort_loop(children, nparents, roots, queue, cnt) ==
    IF roots = <<>> THEN [queue |-> queue, cnt |-> cnt]
    ELSE LET node == roots[Len(roots)]
             r == sort_children(children[node], nparents,
                                SubSeq(roots, 1, Len(roots) - 1), cnt)
         IN sort_loop(children, nparents, r.roots, <<node>> \o queue, r.cnt)

\* Configure.py:306-329
sort_tasks(c) ==
    LET n == Len(c.tasks)
        children == [i \in 1..n |->
                        [k \in 1..Len(c.children[c.tasks[i]]) |->
                            idxs(c.tasks, c.children[c.tasks[i]][k][2])]]
        nparents == [i \in 1..n |-> Len(c.parents[c.tasks[i]])]
        roots == SelectSeq([i \in 1..n |-> i], LAMBDA node : nparents[node] = 0)
        r == sort_loop(children, nparents, roots, <<>>, [i \in 1..n |-> 0])
    IN IF r.cnt # nparents
       THEN [c EXCEPT !.op = "sort_tasks", !.e = "cycles", !.pc = "exit"]
       ELSE [c EXCEPT !.op = "sort_tasks", !.e = "none", !.pc = "sorted",
                      !.tasks = [k \in 1..Len(r.queue) |-> c.tasks[r.queue[k]]]]

\* Cellar.py:150-156: get_state returns a member of State
get_state_of(c, t) == [enum |-> "State", value |-> c.rows[t]]

\* Cellar.py:30: State is a plain Enum, a member of it is equal to no int
py_ne(a, k) == IF a.enum = "int" THEN a.value # k ELSE TRUE

\* Configure.py:334-340: the loop over the children of a node
blocked(c, node, hashes) ==
    \E k \in 1..Len(c.children[node]) :
        LET name == c.children[node][k][1]
            child == c.children[node][k][2]
        IN \/ child \notin hashes
           \/ /\ name \in c.blocking[node]
              /\ py_ne(get_state_of(c, child), 1)

\* Configure.py:333-350: the loop over the tasks; a node that is not blocked
\* is sealed, which gives it a hash (Configure.py:137-154)
RECURSIVE process_loop(_, _, _, _)
process_loop(c, i, hashes, sealed) ==
    IF i > Len(c.tasks) THEN [hashes |-> hashes, sealed |-> sealed]
    ELSE LET node == c.tasks[i]
         IN IF blocked(c, node, hashes) THEN process_loop(c, i + 1, hashes, sealed)
            ELSE process_loop(c, i + 1, hashes \cup {node}, sealed \cup {node})

\* Configure.py:331-351
process(c) ==
    LET r == process_loop(c, 1, c.hashes, {})
    IN [c EXCEPT !.op = "process", !.hashes = r.hashes, !.sealed = r.sealed]

\* the number of children that the first n tasks have
RECURSIVE NumEdges(_, _)
NumEdges(c, n) == IF n = 0 THEN 0 ELSE Len(c.children[n]) + NumEdges(c, n - 1)

\* a rule of the cscript gives a task a child
AddChild(self, task, name, blocks) ==
    /\ conf.pc = "build"
    /\ NumEdges(conf, NumTaskNodes) < MaxEdges
    /\ conf' = add_child(conf, self, task, name, blocks)
    /\ UNCHANGED <<base, sync, rst, workers>>

SortTasks ==
    /\ conf.pc = "build"
    /\ conf' = sort_tasks(conf)
    /\ UNCHANGED <<base, sync, rst, workers>>

Process ==
    /\ conf.pc = "sorted"
    /\ conf' = process(conf)
    /\ UNCHANGED <<base, sync, rst, workers>>

\* between two passes the tasks that have a hash are stored and one is run
RunTask(t) ==
    /\ conf.pc = "sorted"
    /\ t \in conf.hashes
    /\ conf.rows[t] # DONE
    /\ conf' = [conf EXCEPT !.op = "run", !.rows[t] = DONE]
    /\ UNCHANGED <<base, sync, rst, workers>>

NextConf ==
    \/ \E self \in TaskNodes, task \in TaskNodes, name \in Names, blocks \in BOOLEAN :
          AddChild(self, task, name, blocks)
    \/ SortTasks
    \/ Process
    \/ \E t \in TaskNodes : RunTask(t)

\* ---- reset, caf/cli.py:377-413: the states of the tasks in the queue of
\* the scheduler, the tasks whose outputs the cellar holds, and the calls
\* that the command made
States == {CLEAN, DONE, DONEREMOTE, ERROR, RUNNING, INTERRUPTED}

NoReset ==
    [pc |-> "idle", states |-> [t \in TaskHashes |-> CLEAN], outputs |-> {},
     was |-> [t \in TaskHashes |-> CLEAN], hashes |-> {}, hard |-> FALSE,
     running |-> FALSE, only_running |-> FALSE, answer |-> "",
     sched_reset |-> {}, cellar_reset |-> {}]

\* cli.py:400-404
states_to_reset(running, only_running) ==
    (IF only_running \/ running THEN {RUNNING} ELSE {})
        \cup (IF ~only_running THEN {ERROR, INTERRUPTED} ELSE {})

\* cli.py:405-413: the tasks handed to scheduler.reset_task
scheduler_reset(states, hashes, hard, running, only_running) ==
    {hashid \in hashes :
        \/ states[hashid] \in states_to_reset(running, only_running)
        \/ hard /\ states[hashid] \in {DONE, DONEREMOTE, CLEAN}}

\* cli.py:410-413: the tasks handed to cellar.reset_task
cellar_reset(states, hashes, hard, running, only_running) ==
    {hashid \in hashes :
        /\ states[hashid] \notin states_to_reset(running, only_running)
        /\ hard /\ states[hashid] \in {DONE, DONEREMOTE, CLEAN}
        /\ states[hashid] \in {DONE, CLEAN}}

\* cli.py:384-413; answer is what the user types at the prompt.
\* scheduler.reset_task leaves the task CLEAN in the queue,
\* Cellar.reset_task (Cellar.py:252-253) empties its outputs.
reset(r, hashes, hard, running, only_running, answer) ==
    LET called == [r EXCEPT !.pc = "done", !.was = r.states, !.hashes = hashes,
                            !.hard = hard, !.running = running,
                            !.only_running = only_running, !.answer = answer,
                            !.sched_reset = {}, !.cellar_reset = {}]
        also == IF hard THEN TRUE ELSE running
        sr == scheduler_reset(r.states, hashes, hard, also, only_running)
        cr == cellar_reset(r.states, hashes, hard, also, only_running)
    IN IF hard /\ answer # "y" THEN called
       ELSE [called EXCEPT !.sched_reset = sr, !.cellar_reset = cr,
                           !.states = [t \in TaskHashes |->
                                          IF t \in sr THEN CLEAN ELSE r.states[t]],
                           !.outputs = @ \ cr]

\* the scheduler and the workers leave the tasks of the queue in some
\* states; the tasks that are DONE have outputs in the cellar
Queue(states) ==
    /\ rst.pc = "idle"
    /\ rst' = [rst EXCEPT !.pc = "queued", !.states = states,
                          !.outputs = {t \in TaskHashes : states[t] = DONE}]
    /\ UNCHANGED <<base, sync, conf, workers>>

Reset(hashes, hard, running, only_running, answer) ==
    /\ rst.pc = "queued"
    /\ rst' = reset(rst, hashes, hard, running, only_running, answer)
    /\ UNCHANGED <<base, sync, conf, workers>>

NextReset ==
    \/ \E states \in [TaskHashes -> States] : Queue(states)
    \/ \E hashes \in SUBSET TaskHashes, hard \in BOOLEAN, running \in BOOLEAN,
          only_running \in BOOLEAN, answer \in {"y", "n"} :
          Reset(hashes, hard, running, only_running, answer)

\* ---- Worker, caflib/Worker.py: several workers on one tree of task
\* directories. A path is the sequence of names from a target down to a
\* task; the paths <<"ta", "tb">> and <<"tc", "tb">> lead to one directory.
NumWorkers == 2
Workers == 1..NumWorkers
\* .caf/children of each task directory
Children == [ta |-> <<"tb">>, tb |-> <<>>, tc |-> <<"tb">>]
TaskOf(path) == path[Len(path)]

\* seal: the tasks with .caf/seal; lock: the tasks with a directory .lock;
\* caflock: the tasks with a file .caf/lock; holder: the worker whose mkdir
\* made .lock; nseal: how often .caf/seal was written
NoWork ==
    [seal |-> {}, lock |-> {}, caflock |-> DOMAIN Children,
     holder |-> [t \in DOMAIN Children |-> 0],
     nseal |-> [t \in DOMAIN Children |-> 0],
     proc |-> [w \in Workers |->
                  [pc |-> "idle", queue |-> <<>>, path |-> <<>>, descend |-> FALSE]]]

\* Worker.py:19-31
RECURSIVE enqueue(_, _, _, _)
RECURSIVE enqueue_all(_, _, _, _)
enqueue(k, queue, path, descend) ==
    IF TaskOf(path) \in k.seal THEN queue
    ELSE LET children == [i \in 1..Len(Children[TaskOf(path)]) |->
                             Append(path, Children[TaskOf(path)][i])]
         IN IF descend
            THEN enqueue_all(k,
                     IF path \notin Range(queue) /\ TaskOf(path) \in k.caflock
                     THEN Append(queue, path) ELSE queue,
                     children, TRUE)
            ELSE IF /\ path \notin Range(queue)
                    /\ TaskOf(path) \in k.caflock
                    /\ \A i \in 1..Len(children) : TaskOf(children[i]) \in k.seal
                 THEN Append(queue, path) ELSE queue

\* Worker.py:26-27, 43-45: enqueue for each path in turn
enqueue_all(k, queue, paths, descend) ==
    IF paths = <<>> THEN queue
    ELSE enqueue_all(k, enqueue(k, queue, Head(paths), descend), Tail(paths), descend)

\* Worker.py:16-48
WorkBegin(w, tgts, descend) ==
    /\ workers.proc[w].pc = "idle"
    /\ workers' = [workers EXCEPT
          !.proc[w] = [pc |-> "loop", queue |-> enqueue_all(workers, <<>>, tgts, descend),
                       path |-> <<>>, descend |-> descend]]
    /\ UNCHANGED <<base, sync, conf, rst>>

\* Worker.py:53 with a mkdir that does not fail when the directory exists
MkdirExistOk(k, w, path) ==
    [k EXCEPT !.lock = @ \cup {TaskOf(path)}, !.holder[TaskOf(path)] = w,
              !.proc[w].pc = "locked"]

\* Worker.py:51-55: OSError when the directory exists
mkdir(k, w, path) ==
    IF TaskOf(path) \in k.lock THEN k
    ELSE [k EXCEPT !.lock = @ \cup {TaskOf(path)}, !.holder[TaskOf(path)] = w,
                   !.proc[w].pc = "locked"]

\* Worker.py:57, 75
rmdir(k, w) ==
    [k EXCEPT !.lock = @ \ {TaskOf(k.proc[w].path)},
              !.holder[TaskOf(k.proc[w].path)] = 0,
              !.proc[w].pc = "loop"]

\* Worker.py:49-55
Pop(w) ==
    /\ workers.proc[w].pc = "loop"
    /\ workers.proc[w].queue # <<>>
    /\ LET queue == workers.proc[w].queue
           path == queue[Len(queue)]
       IN workers' = mkdir([workers EXCEPT !.proc[w].queue = SubSeq(queue, 1, Len(queue) - 1),
                                           !.proc[w].path = path], w, path)
    /\ UNCHANGED <<base, sync, conf, rst>>

\* Worker.py:56-65: the task is sealed and the lock goes, or the command starts
Started(w) ==
    /\ workers.proc[w].pc = "locked"
    /\ workers' = IF TaskOf(workers.proc[w].path) \in workers.seal THEN rmdir(workers, w)
                  ELSE [workers EXCEPT !.proc[w].pc = "run"]
    /\ UNCHANGED <<base, sync, conf, rst>>

\* Worker.py:65-70, 75: the command returns 0
CheckCallReturns(w) ==
    /\ workers.proc[w].pc = "run"
    /\ workers' = rmdir([workers EXCEPT !.seal = @ \cup {TaskOf(workers.proc[w].path)},
                                        !.nseal[TaskOf(workers.proc[w].path)] = @ + 1], w)
    /\ UNCHANGED <<base, sync, conf, rst>>

\* Worker.py:71-75: CalledProcessError
CheckCallRaises(w) ==
    /\ workers.proc[w].pc = "run"
    /\ workers' = rmdir(workers, w)
    /\ UNCHANGED <<base, sync, conf, rst>>

\* Worker.py:33-36: SIGINT arrives, sys.exit() raises SystemExit where the
\* worker is; nothing in work catches it and there is no finally
sigint_handler(w) ==
    /\ workers.proc[w].pc \in {"loop", "locked", "run"}
    /\ workers' = [workers EXCEPT !.proc[w].pc = "exit"]
    /\ UNCHANGED <<base, sync, conf, rst>>

\* Worker.py:49, 77
WorkEnd(w) ==
    /\ workers.proc[w].pc = "loop"
    /\ workers.proc[w].queue = <<>>
    /\ workers' = [workers EXCEPT !.proc[w].pc = "end"]
    /\ UNCHANGED <<base, sync, conf, rst>>

NextWork ==
    \/ \E w \in Workers, descend \in BOOLEAN :
       \E tgts \in {<<"ta">>, <<"tc">>, <<"ta", "tc">>} :
          WorkBegin(w, [i \in 1..Len(tgts) |-> <<tgts[i]>>], descend)
    \/ \E w \in Workers : Pop(w)
    \/ \E w \in Workers : Started(w)
    \/ \E w \in Workers : CheckCallReturns(w)
    \/ \E w \in Workers : CheckCallRaises(w)
    \/ \E w \in Workers : sigint_handler(w)
    \/ \E w \in Workers : WorkEnd(w)

\* ---- inputs
FutIds == 1..Len(heap)
Lists == UNION {[1..n -> FutIds] : n \in 1..MaxList}
Objs == {IntObj(k) : k \in Lits} \cup {FutObj(i) : i \in FutIds} \cup {ListObj(s) : s \in Lists}
SimpleObjs == {IntObj(k) : k \in Lits} \cup {FutObj(i) : i \in FutIds}
ArgLists == {<<>>} \cup {<<a>> : a \in Objs} \cup {<<a, b>> : a \in SimpleObjs, b \in SimpleObjs}

\* ---- the program
Init ==
    /\ heap = <<>>
    /\ sess = [s \in Sessions |-> EmptySession]
    /\ active = 0
    /\ evalfut = 0
    /\ err = "none"
    /\ trace = <<>>
    /\ past = {}
    /\ InitCellar
    /\ co = NoCheckout
    /\ trav = NoTraverse
    /\ sch = NoScheduler
    /\ sync = NoSync
    /\ conf = NoConf
    /\ rst = NoReset
    /\ workers = NoWork

\* the user's script is between two statements
Idle == err = "none" /\ evalfut = 0

Begin == [State EXCEPT !.trace = <<>>]

Commit(st) ==
    /\ Len(st.heap) <= MaxHeap
    /\ heap' = st.heap
    /\ sess' = st.sess
    /\ err' = st.err
    /\ trace' = st.trace
    /\ UNCHANGED others

\* (mutant) __enter__ without its assertion
EnterUnchecked(s) ==
    /\ Idle
    /\ active = 0 => s = 1
    /\ active' = s
    /\ trace' = <<>>
    /\ UNCHANGED <<heap, sess, evalfut, err>>
    /\ UNCHANGED others

\* Session.__enter__, caf.py:215-218
Enter(s) ==
    /\ Idle
    /\ active = 0 => s = 1
    /\ IF active = 0
       THEN active' = s /\ err' = err
       ELSE active' = active /\ err' = "AssertionError:__enter__"
    /\ trace' = <<>>
    /\ UNCHANGED <<heap, sess, evalfut>>
    /\ UNCHANGED others

\* Session.__exit__, caf.py:220-224, at the end of the with block of s or
\* when an exception leaves it (src of the event is 1).  The script uses
\* the futures of a session inside its with block only: they leave the heap.
__exit__(s) ==
    /\ active = s
    /\ evalfut = 0 \/ err # "none"
    /\ active' = 0
    /\ sess' = [sess EXCEPT ![s] = EmptySession]
    /\ err' = "none"
    /\ evalfut' = 0
    /\ trace' = <<Event("exit", 0, IF err = "none" THEN 0 ELSE 1)>>
    /\ heap' = <<>>

Exit(s) ==
    /\ __exit__(s)
    /\ UNCHANGED others

\* an exception raised outside every with block reaches the top of the script
Escape ==
    /\ err # "none"
    /\ active = 0
    /\ err' = "none"
    /\ trace' = <<>>
    /\ UNCHANGED <<heap, sess, active, evalfut>>
    /\ UNCHANGED others

\* a rule called by the script
CallRule(r, objs) ==
    /\ Idle
    /\ \E st \in Rule__call__(Begin, r, objs) : Commit(st)
    /\ UNCHANGED <<active, evalfut>>

\* task[key] or indexor[key] in the script
GetItem(i, key) ==
    /\ Idle
    /\ heap[i].kind \in {"Task", "Indexor"}
    /\ Len(heap[i].keys) < MaxDepth
    /\ \E st \in getitem(Begin, i, key) : Commit(st)
    /\ UNCHANGED <<active, evalfut>>

\* eval returns v to the script
Returns(st, v) == Log(st, [Event("eval_return", evalfut, 0) EXCEPT !.v = v])

\* Session.eval, caf.py:245-252: up to the loop
EvalBegin(obj) ==
    /\ Idle
    /\ active # 0
    /\ CASE obj.o = "fut" ->
              /\ evalfut' = obj.fs[1]
              /\ Commit(Begin)
         [] obj.o = "int" ->
              /\ Commit(Returns(Begin, IntVal(obj.n)))
              /\ UNCHANGED evalfut
         [] obj.o = "list" ->
              \E st \in Template(Begin, obj) : Commit(st) /\ evalfut' = st.ret
    /\ UNCHANGED active

\* (mutant) the task is read from the queue and not taken from it
EvalStepPeek(body) ==
    /\ evalfut # 0
    /\ err = "none"
    /\ sess[active].waiting # <<>>
    /\ body \in Outs(heap[Head(sess[active].waiting)].f)
    /\ \E st \in run(Begin, Head(sess[active].waiting), body) : Commit(st)
    /\ UNCHANGED <<active, evalfut>>

\* one iteration of the loop of caf.py:253-255
EvalStep(body) ==
    /\ evalfut # 0
    /\ err = "none"
    /\ sess[active].waiting # <<>>
    /\ body \in Outs(heap[Head(sess[active].waiting)].f)
    /\ LET t == Head(sess[active].waiting)
           s0 == [Begin EXCEPT !.sess[active].waiting = Tail(@)]
       IN \E st \in run(s0, t, body) : Commit(st)
    /\ UNCHANGED <<active, evalfut>>

\* return fut.result(), caf.py:256
EvalEnd ==
    /\ evalfut # 0
    /\ err = "none"
    /\ sess[active].waiting = <<>>
    /\ LET r == result(State, evalfut, "eval")
       IN IF r.e # "none"
          THEN Commit(Raise(Begin, r.e)) /\ UNCHANGED evalfut
          ELSE Commit(Returns(Begin, r.v)) /\ evalfut' = 0
    /\ UNCHANGED active

Next ==
    \/ \E s \in Sessions : Enter(s)
    \/ \E s \in Sessions : Exit(s)
    \/ Escape
    \/ \E r \in Rules, objs \in ArgLists : CallRule(r, objs)
    \/ \E i \in FutIds, key \in Keys : GetItem(i, key)
    \/ \E obj \in Objs : EvalBegin(obj)
    \/ \E body \in {"value", "task", "list", "index"} : EvalStep(body)
    \/ EvalEnd

Spec == Init /\ [][Next]_vars

\* the cellar under any sequence of calls
SpecCellar == Init /\ [][NextCellar]_cellar

\* a build is stored and checked out
SpecCheckout == Init /\ [][NextCheckout]_<<cellar, co>>

\* one traversal of a graph
SpecTraverse == Init /\ [][NextTraverse]_trav

\* one synchronous traversal of a graph
SpecSync == Init /\ [][NextSync]_sync

SpecConf == Init /\ [][NextConf]_conf

SpecReset == Init /\ [][NextReset]_rst

SpecWork == Init /\ [][NextWork]_workers

\* a traversal driven by make or by eval_async
SpecScheduler == Init /\ [][NextScheduler]_graph

\* the same when the consumer keeps iterating, the event loop keeps running
\* the generator, and every execution started puts its result in the end
SpecTraverseFair ==
    /\ SpecTraverse
    /\ WF_trav(Step)
    /\ WF_trav(Resume)
    /\ \A node \in Nodes : WF_trav(\E payload \in SUBSET Generated[node] : Deliver(node, payload))

\* ---- one script run again: each run of the script is a with block of a
\* fresh Session that calls rules without arguments and evaluates tasks

\* the hash ids of the tasks of the heap that ran
Ran == {heap[i].hashid : i \in {j \in FutIds : heap[j].kind = "Task" /\ heap[j].nrun > 0}}

\* __exit__ at the normal end of a with block, with the history of what ran
ExitRemembering(s) ==
    /\ err = "none"
    /\ __exit__(s)
    /\ past' = past \cup Ran
    /\ UNCHANGED <<cellar, co, graph, misc>>

NextResume ==
    \/ Enter(1)
    \/ \E s \in Sessions : ExitRemembering(s)
    \/ \E r \in Rules : CallRule(r, <<>>)
    \/ \E i \in FutIds : EvalBegin(FutObj(i))
    \/ \E body \in {"value", "task", "list", "index"} : EvalStep(body)
    \/ EvalEnd

SpecResume == Init /\ [][NextResume]_<<vars, past>>

\* ---- properties

Tasks == {t \in FutIds : heap[t].kind = "Task"}
TasksAfter == {t \in DOMAIN heap' : heap'[t].kind = "Task"}
Events(tr, ev) == {i \in DOMAIN tr : tr[i].ev = ev}
IsPrefix(a, b) == Len(a) <= Len(b) /\ \A i \in DOMAIN a : a[i] = b[i]

\* C1: a create_task call whose rule name and argument hash ids are those of
\* an earlier call of the session returns the Task object of that call, makes
\* no second Task of that hash and leaves one registry entry for it; made by
\* the script, it leaves the pending set and the waiting queue as they were.
C1_Idempotent ==
    [][\A i \in Events(trace', "create_task") :
          LET e == trace'[i]
              earlier == {t \in Tasks : heap[t].hashid = e.h}
          IN earlier # {} =>
               /\ e.fut \in earlier
               /\ {t \in TasksAfter : heap'[t].hashid = e.h} = {e.fut}
               /\ e.h \in DOMAIN sess'[active].tasks
               /\ sess'[active].tasks[e.h] = e.fut
               /\ evalfut = 0 => sess' = sess]_vars

\* a rule call of the script returned a task that had already run
C1_Witness ==
    /\ evalfut = 0
    /\ err = "none"
    /\ \E i \in Events(trace, "create_task") :
          trace[i].fut < Len(heap) /\ heap[trace[i].fut].nrun = 1

Count(seq, x) == Cardinality({i \in DOMAIN seq : seq[i] = x})
Waiting == IF active = 0 THEN {} ELSE Range(sess[active].waiting)
AssertionsOfReads ==
    {"AssertionError:run", "AssertionError:result@run",
     "AssertionError:result@substitute", "AssertionError:result@resolve"}

\* C2: the rule function of a task runs at most once and a task is appended
\* to a waiting queue at most once, whatever is requested or evaluated; only
\* tasks are queued and run.
C2_RunOnce ==
    /\ \A f \in FutIds :
          /\ heap[f].nrun <= 1
          /\ heap[f].nenq <= 1
          /\ heap[f].nrun <= heap[f].nenq
          /\ heap[f].kind # "Task" => heap[f].nenq = 0
    /\ \A s \in Sessions : \A i, j \in DOMAIN sess[s].waiting :
          sess[s].waiting[i] = sess[s].waiting[j] => i = j

\* eval has just been called for a task that has run before
C2_Witness ==
    /\ evalfut # 0
    /\ trace = <<>>
    /\ heap[evalfut].kind = "Task"
    /\ heap[evalfut].nrun = 1

\* C3: Task.run, Template.substitute and Indexor.resolve never read an unset
\* result and the assertion of Task.run holds: when a task has run, or a
\* Template or Indexor has its result, everything it depends on is done.
C3_DepsFirst ==
    /\ err \notin AssertionsOfReads
    /\ \A f \in FutIds :
          (heap[f].nrun > 0 \/ (heap[f].kind # "Task" /\ heap[f].result # UNSET))
             => \A a \in Range(heap[f].args) : heap[a].result # UNSET

\* a task that has run has an argument that is a task that has run
C3_Witness ==
    \E t \in Tasks : /\ heap[t].nrun = 1
                     /\ \E a \in Range(heap[t].args) : heap[a].kind = "Task" /\ heap[a].nrun = 1

\* C4: no assertion of set_result fails, the result of a future is assigned at
\* most once, and a result that is set stays as it is.
C4_SetOnce ==
    [][/\ err' \notin {"AssertionError:set_result:ready", "AssertionError:set_result:done"}
       /\ \A f \in DOMAIN heap' :
             heap'[f].nset = IF heap'[f].result = UNSET THEN 0 ELSE 1
       /\ \A f \in FutIds \cap DOMAIN heap' :
             heap[f].result # UNSET => heap'[f].result = heap[f].result]_vars

\* a task took the result of the Future its rule function had returned
C4_Witness ==
    \E t \in Tasks : /\ heap[t].returned # 0
                     /\ heap[t].nset = 1
                     /\ heap[heap[t].returned].nset = 1

C7_Order ==
    /\ \A p \in Events(trace, "done_cb") :
          LET f == trace[p].fut
          IN \A d \in heap[f].depants :
                /\ \E q \in 1..(p - 1) : trace[q] = Event("dep_done", d, f)
                /\ \A q \in Events(trace, "ready_cb") :
                      (trace[q].fut = d /\ q > 1 /\ trace[q - 1] = Event("dep_done", d, f))
                         => q < p
    /\ \A p, q \in Events(trace, "done_cb") :
          (trace[p].fut = trace[q].fut /\ trace[p].src < trace[q].src) => p < q
    /\ \A f \in FutIds : /\ IsPrefix(heap[f].dclog, heap[f].done_callbacks)
                         /\ IsPrefix(heap[f].rclog, heap[f].rcreg)

\* the result of a future with a dependent and a done callback was set
C7_Witness ==
    \E p \in Events(trace, "done_cb") :
       \E q \in Events(trace, "dep_done") : trace[q].src = trace[p].fut

\* C8 (as claimed): a task whose rule function returned the Future F is done
\* when F is done, with the result of F, whether or not F was done when the
\* rule function returned.
C8_Adopts ==
    \A t \in Tasks :
       LET F == heap[t].returned
       IN (heap[t].nrun > 0 /\ F # 0 /\ heap[F].result # UNSET /\ err # "LookupError")
             => heap[t].result = heap[F].result

\* C9 (as claimed): eval of a future of the session raises no assertion and
\* returns the result of the future.
C9_EvalReturns ==
    /\ err \notin {"AssertionError:result@eval", "AssertionError:add_done_callback"}
    /\ \A p \in Events(trace, "eval_return") :
          trace[p].fut # 0 =>
             /\ sess[active].waiting = <<>>
             /\ trace[p].v # UNSET
             /\ trace[p].v = heap[trace[p].fut].result

\* C10: the active session changes only from none to one and from one to
\* none; entering while one is active fails and changes nothing; leaving
\* empties the session; no rule makes a task when none is active; a session
\* that is not active is empty.
C10_OneActive ==
    [][/\ active # 0 /\ active' # active =>
             active' = 0 /\ \A s \in Sessions : sess'[s] = EmptySession
       /\ active # 0 /\ err' = "AssertionError:__enter__" =>
             active' = active /\ sess' = sess /\ heap' = heap
       /\ active = 0 => Events(trace', "create_task") = {} /\ heap' = heap /\ sess' = sess
       /\ \A s \in Sessions : s # active' => sess'[s] = EmptySession]_vars

\* a session was left by the exception of an __enter__ in its with block
C10_Witness ==
    /\ active = 0
    /\ trace = <<Event("exit", 0, 1)>>


\* C11: a task whose hash id is that of a task that ran in a session that
\* has ended is not run again: the second run of a script over the same
\* rule graph executes no rule function.
C11_NoRerun ==
    \A i \in FutIds :
        heap[i].kind = "Task" /\ heap[i].hashid \in past => heap[i].nrun = 0


\* the ordered hash ids of a tuple of futures
HashIds(fs) == [k \in DOMAIN fs |-> heap[fs[k]].hashid]

\* C12: two tasks have the same hash id iff they have the same rule full
\* name and the same ordered argument hash ids, whenever they were created
\* and whatever has run or is done, and the task a create_task call returns
\* has the rule and the ordered argument hash ids of the call.
C12_HashIdentity ==
    /\ \A i, j \in Tasks :
          heap[i].hashid = heap[j].hashid <=>
              /\ get_fullname(heap[i].f) = get_fullname(heap[j].f)
              /\ HashIds(heap[i].args) = HashIds(heap[j].args)
    /\ \A p \in Events(trace, "create_task") :
          LET e == trace[p]
          IN /\ heap[e.fut].hashid = e.h
             /\ heap[e.fut].f = e.req.r
             /\ HashIds(heap[e.fut].args) = HashIds(e.req.a)

\* a rule call returned the task made by an earlier call, which was made
\* before its argument was done and is asked for again now that it is done;
\* another task of the same rule with other arguments has another hash id
C12_Witness ==
    /\ evalfut = 0
    /\ \E p \in Events(trace, "create_task") :
          LET t == trace[p].fut
          IN /\ heap[t].notes # <<>>
             /\ \A k \in DOMAIN heap[t].args : heap[heap[t].args[k]].result # UNSET
             /\ \E u \in Tasks : /\ heap[u].f = heap[t].f
                                 /\ heap[u].hashid # heap[t].hashid


\* C13: the file store is write-once: a store call never changes or removes
\* the content held under any hash; a store of a hash that holds a file
\* returns False and changes no file; a store that returns True has written
\* its content under its hash, which held none, and no other file.
C13_WriteOnce ==
    [][call'.op = "store" =>
          LET h == call'.h
          IN /\ \A g \in DOMAIN objects : g \in DOMAIN objects' /\ objects'[g] = objects[g]
             /\ DOMAIN objects' \subseteq DOMAIN objects \cup {h}
             /\ h \in DOMAIN objects => ~call'.ok /\ objects' = objects
             /\ call'.ok => /\ h \notin DOMAIN objects
                            /\ h \in DOMAIN objects'
                            /\ objects'[h] = call'.text
             /\ <<taskrows', builds', targets'>> = <<taskrows, builds, targets>>]_cellar

\* a store of another content under a hash that holds a file was refused
C13_Witness ==
    /\ call.op = "store"
    /\ ~call.ok
    /\ call.h \in DOMAIN objects
    /\ objects[call.h] # call.text


\* C14: get_file returns the path of a file that exists or raises
\* FileNotFoundError; every hash of objectdb has its file; after a store call
\* of a hash the file of the hash exists, also when gc had deleted it.
C14_FilesFound ==
    /\ call.op = "get_file" => call.e \in {"none", "FileNotFoundError"}
    /\ call.op = "get_file" /\ call.e = "none" => call.h \in DOMAIN objects
    /\ objectdb \subseteq DOMAIN objects
    /\ call.op = "store" => call.h \in DOMAIN objects


\* the tasks reached through children from the targets of build b
TreeOf(b) == Closure({t.taskhash : t \in {x \in targets : x.buildid = b}}, Cardinality(TaskHashes))

\* a gc call that returned keeps the tasks of the tree of build b, whatever
\* their state, and the input and output files of these tasks
GcKeeps(b) ==
    call'.op = "gc" /\ call'.e = "none" =>
        /\ \A h \in TreeOf(b) \cap DOMAIN taskrows :
              h \in DOMAIN taskrows' /\ taskrows'[h] = taskrows[h]
        /\ \A f \in FilesOf(Cellar, TreeOf(b) \cap DOMAIN taskrows) \cap DOMAIN objects :
              f \in DOMAIN objects' /\ objects'[f] = objects[f]

\* C15: gc keeps the row of every task reached from the targets of the
\* latest build (the build of the last store_build call), whatever its
\* state, and every input and output file of these tasks.
C15_GcKeepsBuild == [][GcKeeps(Len(builds))]_cellar

\* gc keeps what is reached from the build its query answered
GcKeepsChosenBuild == [][GcKeeps(call'.b)]_cellar


\* C16: in no state is a task DONE while a file of its recorded outputs is
\* missing from the file store (seal_task stores the files, then writes
\* outputs and DONE together).
C16_DoneHasBlobs ==
    \A h \in DOMAIN taskrows :
        taskrows[h].state = DONE => Values(taskrows[h].outputs) \subseteq DOMAIN objects


\* C17: every task record in state DONE has outputs that are present and
\* not empty, and every record in another state has outputs absent or empty.
C17_OutputsIffDone ==
    \A h \in DOMAIN taskrows :
        LET row == taskrows[h]
        IN IF row.state = DONE
           THEN row.has /\ DOMAIN row.outputs # {}
           ELSE ~row.has \/ DOMAIN row.outputs = {}

\* a task is DONE, and a task that was sealed has been reset
C17_Witness ==
    /\ call.op = "reset_task"
    /\ call.e = "none"
    /\ taskrows[call.h].has
    /\ \E h \in DOMAIN taskrows : taskrows[h].state = DONE


\* C18: a store_build call that returns inserts the tasks of the batch that
\* are new as CLEAN, leaves every stored row as it is (state, outputs,
\* created), appends one build, adds the given targets for that build and no
\* other, and returns for each task of the batch the pair of its hash and
\* the state stored after the call; a call that is not confirmed changes
\* nothing.
C18_StoreBuildFrame ==
    [][call'.op = "store_build" =>
          IF call'.e # "none"
          THEN <<taskrows', builds', targets', objects'>> = <<taskrows, builds, targets, objects>>
          ELSE /\ DOMAIN taskrows' = DOMAIN taskrows \cup call'.batch
               /\ \A h \in DOMAIN taskrows : taskrows'[h] = taskrows[h]
               /\ \A h \in call'.batch \ DOMAIN taskrows :
                     taskrows'[h] = Row(CLEAN, FALSE, NoFiles, clock')
               /\ builds' = Append(builds, clock')
               /\ targets \subseteq targets'
               /\ targets' \ targets =
                     {[taskhash |-> call'.tgts[p], buildid |-> Len(builds'), path |-> p]
                         : p \in DOMAIN call'.tgts}
               /\ call'.pairs = {<<h, taskrows'[h].state>> : h \in call'.batch}
               /\ \A h \in call'.batch :
                     Cardinality({pr \in call'.pairs : pr[1] = h}) = 1]_cellar

\* store_build returned a DONE task it left alone and a task it inserted
C18_Witness ==
    /\ call.op = "store_build"
    /\ call.e = "none"
    /\ \E pr \in call.pairs : pr[2] = DONE
    /\ \E pr \in call.pairs : pr[2] = CLEAN /\ taskrows[pr[1]].created = clock
    /\ \E h \in call.batch : taskrows[h].created < clock


\* the cellar after the step
CellarAfter ==
    [objects |-> objects', objectdb |-> objectdb', taskrows |-> taskrows',
     builds |-> builds', targets |-> targets', retain |-> retain',
     ret |-> FALSE, e |-> "none"]

\* C19: reset_task of a stored task, in whatever state, leaves it CLEAN with
\* empty outputs and changes no other row, no build, no target and no file;
\* a second reset_task right after it changes nothing; reset_task of a task
\* that is not stored fails and changes nothing.
C19_ResetFrame ==
    [][call'.op = "reset_task" =>
          LET h == call'.h
          IN IF call'.e # "none"
             THEN /\ h \notin DOMAIN taskrows
                  /\ <<taskrows', builds', targets', objects'>> = <<taskrows, builds, targets, objects>>
             ELSE /\ h \in DOMAIN taskrows
                  /\ DOMAIN taskrows' = DOMAIN taskrows
                  /\ taskrows'[h].state = CLEAN
                  /\ taskrows'[h].outputs = NoFiles
                  /\ taskrows'[h].created = taskrows[h].created
                  /\ \A g \in DOMAIN taskrows \ {h} : taskrows'[g] = taskrows[g]
                  /\ <<builds', targets', objects'>> = <<builds, targets, objects>>
                  /\ reset_task(CellarAfter, h) = CellarAfter]_cellar

\* a DONE task was reset while files are stored and another task has a row
C19_Witness ==
    /\ call.op = "reset_task"
    /\ call.e = "none"
    /\ call.old = DONE
    /\ DOMAIN objects # {}
    /\ Cardinality(DOMAIN taskrows) = 2


\* the real directories that hold the files of task h
RealDirs(h) == {q \in DOMAIN co.fs : co.fs[q].kind = "dir" /\ co.fs[q].task = h}

\* C20: in one checkout each task hash has at most one real directory, and
\* every other matching virtual path of that hash is, by a directory-level
\* symlink at the path or above it, that first directory.
C20_OnceAsDirectory ==
    /\ \A h \in TaskHashes : Cardinality(RealDirs(h)) <= 1
    /\ co.e = "none" =>
          \A item \in co.seen :
              /\ item.h \in DOMAIN co.paths
              /\ RealDirs(item.h) = {Real(co.fs, co.paths[item.h])}
              /\ Real(co.fs, item.path) = Real(co.fs, co.paths[item.h])

\* the targets of the build checked out are not nested in one another
FlatTargets == \A t \in targets : Len(t.path) = 1

\* the same for builds whose targets are paths of one name
OnceAsDirectoryFlat == FlatTargets => C20_OnceAsDirectory

\* C21: with nolink every entry made in the directory of a task is a copy
\* and none is a symlink, without nolink every entry is a symlink, and in
\* both modes the entries are the inputs, the childlinks and the recorded
\* outputs of the task, each with its file as content.
C21_NolinkCopies ==
    \A q \in DOMAIN co.files :
        LET task == get_task(Cellar, co.fs[q].task)
        IN /\ \A f \in co.files[q] : f.kind = (IF co.nolink THEN "copy" ELSE "symlink")
           /\ co.e = "none" =>
                 {<<f.name, f.src>> : f \in co.files[q]} =
                    {<<n, task.inputs[n]>> : n \in DOMAIN task.inputs}
                    \cup {<<n, task.childlinks[n][1] \o "/" \o task.childlinks[n][2]>> :
                             n \in DOMAIN task.childlinks}
                    \cup (IF task.has THEN {<<n, task.outputs[n]>> : n \in DOMAIN task.outputs}
                          ELSE {})

\* the virtual paths of build b with their tasks: the targets and the
\* children below them
RECURSIVE Below(_, _)
Below(items, n) ==
    IF n = 0 THEN items
    ELSE Below(items \cup UNION {
                 {[h |-> TaskObjects[i.h].children[name], path |-> Append(i.path, name)] :
                     name \in DOMAIN TaskObjects[i.h].children} : i \in items}, n - 1)
TreeItems(b) ==
    Below({[h |-> t.taskhash, path |-> t.path] : t \in get_build(Cellar, b)},
          Cardinality(TaskHashes))

\* C22: a checkout that ends has materialized, with finished, exactly the
\* paths of the build that match the pattern and whose task has recorded
\* outputs, and without finished every path of the build that matches.
C22_FinishedOnly ==
    co.pc = "done" /\ co.e = "none" =>
        co.seen = {i \in TreeItems(co.b) :
                      /\ match_glob(i.path, co.patt)
                      /\ co.finished => taskrows[i.h].has}

\* C23: traverse_async ends only with the to-visit deque, the to-execute
\* deque and the results queue empty and the in-flight counter zero, and
\* with the result of every execution it started consumed; the counter is
\* always the executions started minus the results consumed, never negative.
C23_EndsDrained ==
    /\ trav.pc = "end" =>
          /\ trav.to_visit.q = <<>> /\ trav.to_execute = <<>> /\ trav.done = <<>>
          /\ trav.executing = 0
          /\ trav.flying = {} /\ trav.nconsumed = trav.nstarted
    /\ trav.executing = trav.nstarted - trav.nconsumed
    /\ trav.executing >= 0

\* a traversal has ended after two executions whose results it consumed
C23_Witness ==
    /\ trav.pc = "end"
    /\ trav.nstarted = 2
    /\ trav.executed = 2

\* the nodes reached from the nodes S through the edges of the nodes that
\* are not sentinels
RECURSIVE ReachFrom(_, _)
ReachFrom(S, n) ==
    IF n = 0 THEN S
    ELSE ReachFrom(S \cup UNION {Edges[x] : x \in S \ trav.sentinel}, n - 1)
Reachable == ReachFrom(Range(trav.start) \cup trav.delivered, Cardinality(Nodes))

\* C24: when every execution started puts its result in the end, a
\* traversal that has begun ends, and when it has ended every node reached
\* from the start nodes and the nodes delivered by results, through the
\* edges of nodes that are not sentinels, is visited.
C24_TerminatesAllVisited ==
    (trav.pc = "loop") ~> (trav.pc = "end" /\ Reachable \subseteq trav.visited)

\* a traversal from a alone has ended with b and c visited, c delivered by
\* the execution of a
C24_Witness ==
    /\ trav.pc = "end"
    /\ trav.start = <<"a">>
    /\ trav.delivered = {"c"}
    /\ trav.visited = Nodes

\* C25: a sentinel that was yielded in a TRAVERSE step is visited, is never
\* handed to the schedule hook, is never in the to-execute deque and never
\* executed, and the step after its yield leaves the to-visit deque as it
\* is; the node of every EXECUTE step was appended by the schedule hook in
\* the TRAVERSE step of that node, which came before.
C25_SentinelsNotScheduled ==
    /\ [](\A n \in trav.sentinel :
            /\ n \in trav.visited <=>
                  trav.ntraversed[n] > 0 /\ ~(trav.pc = "yield" /\ trav.node = n)
            /\ n \notin trav.hooked
            /\ n \notin Range(trav.to_execute)
            /\ trav.nexecuted[n] = 0)
    /\ [](\A n \in Nodes :
            trav.nexecuted[n] > 0 =>
               n \in trav.scheduled /\ n \in trav.visited /\ trav.ntraversed[n] > 0)
    /\ [][/\ (trav.pc = "yield" /\ trav.action = TRAVERSE /\ trav.node \in trav.sentinel
              /\ trav'.pc = "loop")
             => trav'.to_visit = trav.to_visit /\ trav'.to_execute = trav.to_execute
          /\ (trav.pc = "loop" /\ trav'.pc = "yield" /\ trav'.action = EXECUTE)
             => trav'.node \in trav.scheduled]_trav

\* a sentinel with an edge was visited and another node was executed
C25_Witness ==
    /\ trav.sentinel = {"c"}
    /\ "c" \in trav.visited
    /\ trav.nexecuted["a"] = 1
    /\ "b" \in trav.visited

\* C26: no node is yielded in a TRAVERSE step twice; the to-visit deque
\* never holds a node twice and never holds a visited node.
C26_VisitOnce ==
    /\ \A n \in Nodes : trav.ntraversed[n] <= 1
    /\ Cardinality(Range(trav.to_visit.q)) = Len(trav.to_visit.q)
    /\ Range(trav.to_visit.q) \cap trav.visited = {}
    /\ trav.to_visit._set = Range(trav.to_visit.q)

\* c was given twice as start node, b was reached by the edge of c and
\* was delivered by the execution of c, and the traversal has ended
C26_Witness ==
    /\ trav.pc = "end"
    /\ trav.start = <<"c", "c">>
    /\ "b" \in trav.delivered
    /\ trav.ntraversed = [n \in Nodes |-> IF n = "a" THEN 0 ELSE 1]

\* the traversal is blocked in done.get()
Blocked == trav.pc = "yield" /\ trav.action = RESULTS /\ trav.done = <<>>

\* C27: the step chosen at the head of the loop is the first action of the
\* priority that is actionable; with the default priority TRAVERSE is
\* chosen only with the results queue and the to-execute deque empty and
\* EXECUTE only with the results queue empty; the loop blocks on the
\* results queue only when nothing was actionable and executions are in
\* flight.
C27_PriorityOrder ==
    /\ [][trav.pc = "loop" /\ trav'.pc = "yield" =>
            LET Able(x) == \/ x = RESULTS /\ trav.done # <<>>
                           \/ x = EXECUTE /\ trav.to_execute # <<>>
                           \/ x = TRAVERSE /\ trav.to_visit.q # <<>>
                p == trav.priority
            IN /\ \A i \in DOMAIN p :
                     Able(p[i]) /\ (\A j \in 1..(i - 1) : ~Able(p[j])) => trav'.action = p[i]
               /\ p = default_priority /\ trav'.action = TRAVERSE =>
                     trav.done = <<>> /\ trav.to_execute = <<>>
               /\ p = default_priority /\ trav'.action = EXECUTE => trav.done = <<>>
               /\ trav'.action = RESULTS /\ trav.done = <<>> =>
                     /\ \A x \in {RESULTS, EXECUTE, TRAVERSE} : ~Able(x)
                     /\ trav.nstarted > trav.nconsumed]_trav
    /\ [](Blocked => /\ trav.to_execute = <<>> /\ trav.to_visit.q = <<>>
                      /\ trav.flying # {})

\* with the default priority a node is executed while another waits to be
\* visited
C27_Witness ==
    /\ trav.priority = default_priority
    /\ trav.pc = "yield"
    /\ trav.action = EXECUTE
    /\ trav.was = {EXECUTE, TRAVERSE}

C29_HandlerDecides ==
    /\ [](sch.mode = "eval" /\ sch.handler /\ trav.pc = "end" =>
             /\ sch.e = "none"
             /\ \A n \in trav.scheduled : sch.state[n] \in {"DONE", "ERROR"})
    /\ [][sch.mode = "eval" =>
            \A n \in Nodes :
               sch'.state[n] = "ERROR" /\ TaskState(n) # "ERROR" =>
                  IF sch.handler
                  THEN /\ sch'.e = sch.e /\ sch'.active = sch.active
                       /\ trav'.pc = trav.pc
                       /\ trav'.done = Append(trav.done, {})
                  ELSE /\ sch'.e = "Exception"
                       /\ trav'.pc = "raised"]_graph

\* an eval whose handler returns true has ended with a task in ERROR and
\* a task DONE and without an exception
C29_Witness ==
    /\ sch.mode = "eval"
    /\ sch.handler
    /\ trav.pc = "end"
    /\ sch.e = "none"
    /\ \E n, m \in trav.scheduled : sch.state[n] = "ERROR" /\ sch.state[m] = "DONE"

\* C30: a cancel of an evaluation in progress ends the traversal with
\* CancelledError raised to the caller of eval_async and the session no
\* longer the active one; from then on no execution is started and the
\* traversal does not go on.
C30_CancelAborts ==
    /\ [][sch'.e = "CancelledError" /\ sch.e # "CancelledError" =>
            /\ trav.pc \in {"loop", "yield"}
            /\ trav'.pc = "cancelled"
            /\ ~sch'.active]_graph
    /\ [][sch.e = "CancelledError" =>
            /\ trav'.nstarted = trav.nstarted
            /\ trav'.pc = trav.pc
            /\ ~sch'.active]_graph

\* an evaluation was cancelled with a task running and a task done
C30_Witness ==
    /\ sch.e = "CancelledError"
    /\ trav.pc = "cancelled"
    /\ \E n, m \in Nodes : sch.state[n] = "INTERRUPTED" /\ sch.state[m] = "DONE"

\* C31: the state of a task row changes only from CLEAN to RUNNING, from
\* RUNNING to DONE, ERROR or INTERRUPTED, or to CLEAN; a row becomes DONE
\* only from RUNNING.
C31_Lifecycle ==
    [][\A h \in DOMAIN taskrows \cap DOMAIN taskrows' :
          LET old == taskrows[h].state
              new == taskrows'[h].state
          IN new # old =>
                \/ new = CLEAN
                \/ old = CLEAN /\ new = RUNNING
                \/ old = RUNNING /\ new \in {DONE, ERROR, INTERRUPTED}]_cellar

\* C39: the build that get_build(nth=0) answers, here to gc, is the build
\* of the most recent store_build call, also when builds were created in
\* the same second.
C39_MostRecentBuild ==
    call.op = "gc" /\ builds # <<>> => call.b = Len(builds)

\* C40: every gc call on a cellar instance returns without an exception,
\* and a gc call directly after a gc call deletes no file, no task and no
\* target.
C40_GcRepeatable ==
    /\ [](call.op = "gc" => call.e = "none")
    /\ [][call.op = "gc" /\ call'.op = "gc" =>
            objects' = objects /\ taskrows' = taskrows /\ targets' = targets]_cellar

\* the nodes reached from the start nodes of traverse through the edges of
\* the nodes that are not sentinels
RECURSIVE SyncReach(_, _)
SyncReach(S, n) ==
    IF n = 0 THEN S
    ELSE SyncReach(S \cup UNION {Edges[x] : x \in S \ sync.sentinel}, n - 1)

\* C38: traverse yields no node twice, when it has ended it has yielded
\* every node reached from the start nodes, and after the yield of a
\* sentinel it adds nothing to its queue.
C38_YieldsOnce ==
    /\ [](\A n \in Nodes : sync.nyield[n] <= 1)
    /\ [](sync.pc = "end" =>
             \A n \in SyncReach(Range(sync.start), Cardinality(Nodes)) : sync.nyield[n] = 1)
    /\ [][sync.pc = "loop" /\ sync.node \in sync.sentinel =>
            Len(sync'.queue) <= Len(sync.queue)]_sync

\* the tasks reached from the tasks of S along at most n child edges
RECURSIVE Descendants(_, _)
Descendants(S, n) ==
    IF n = 0 THEN S
    ELSE Descendants(S \cup UNION {ChildTasks(conf, t) : t \in S}, n - 1)

HasCycle ==
    \E t \in TaskNodes : t \in Descendants(ChildTasks(conf, t), NumTaskNodes)

\* C32: no task is its own child; sort_tasks reports the cycle error exactly
\* when the child relation has a cycle, and otherwise leaves a permutation
\* of the tasks in which every task comes after all of its children.
C32_Acyclic ==
    /\ \A t \in TaskNodes : t \notin ChildTasks(conf, t)
    /\ conf.op = "add_child" /\ conf.e = "itself" => conf.pc = "exit"
    /\ conf.op = "sort_tasks" => (conf.e = "cycles" <=> HasCycle)
    /\ conf.op = "sort_tasks" /\ conf.e = "none" =>
          /\ Len(conf.tasks) = NumTaskNodes
          /\ Range(conf.tasks) = TaskNodes
          /\ \A i, j \in 1..Len(conf.tasks) :
                conf.tasks[j] \in ChildTasks(conf, conf.tasks[i]) => j < i

\* tasks 1 and 2 share the child 3 and 1 has the child 2: sorted as 3, 2, 1
C32_Witness ==
    /\ conf.op = "sort_tasks"
    /\ conf.e = "none"
    /\ ChildTasks(conf, 1) = {2, 3}
    /\ ChildTasks(conf, 2) = {3}
    /\ conf.tasks = <<3, 2, 1>>

\* C37: a pass of process seals a task exactly when every child of it has
\* a hash and every blocking child is DONE in the cellar.
C37_SealsUnblocked ==
    [][conf'.op = "process" =>
         \A t \in TaskNodes :
            t \in conf'.sealed <=>
               \A k \in 1..Len(conf.children[t]) :
                  /\ conf.children[t][k][2] \in conf'.hashes
                  /\ conf.children[t][k][1] \in conf.blocking[t] =>
                        conf.rows[conf.children[t][k][2]] = DONE]_conf

\* C36: reset resets exactly the selected tasks whose state is in the chosen
\* set: ERROR and INTERRUPTED by default, RUNNING too with --running, RUNNING
\* only with --only-running whatever the other flags, DONE, DONEREMOTE and
\* CLEAN only with --hard; every other task keeps its state and its outputs.
C36_ResetsChosen ==
    rst.pc = "done" /\ (rst.hard => rst.answer = "y") =>
        LET chosen == IF rst.only_running THEN {RUNNING}
                      ELSE {ERROR, INTERRUPTED}
                              \cup (IF rst.running \/ rst.hard THEN {RUNNING} ELSE {})
                              \cup (IF rst.hard THEN {DONE, DONEREMOTE, CLEAN} ELSE {})
            kept == {t \in TaskHashes : t \notin rst.hashes \/ rst.was[t] \notin chosen}
        IN /\ rst.sched_reset = {t \in rst.hashes : rst.was[t] \in chosen}
           /\ \A t \in kept : /\ rst.states[t] = rst.was[t]
                              /\ rst.was[t] = DONE => t \in rst.outputs

\* the workers that hold the lock of task t: between mkdir and rmdir
Holding(t) ==
    {w \in Workers : /\ workers.proc[w].pc \in {"locked", "run"}
                     /\ TaskOf(workers.proc[w].path) = t}

\* C33: at most one worker at a time holds the .lock of a task, no worker
\* starts the command of a task that is sealed, and the seal of a task is
\* written at most once.
C33_LockExclusive ==
    /\ [](\A t \in DOMAIN Children :
            /\ Cardinality(Holding(t)) <= 1
            /\ workers.nseal[t] <= 1)
    /\ [][\A w \in Workers :
            workers.proc[w].pc # "run" /\ workers'.proc[w].pc = "run" =>
               TaskOf(workers'.proc[w].path) \notin workers.seal]_workers

\* worker 2 found tb locked by worker 1 and went on; worker 1 sealed tb
C33_Witness ==
    /\ workers.nseal["tb"] = 1
    /\ workers.holder["tb"] = 0
    /\ workers.proc[1].pc = "loop"
    /\ workers.proc[2].pc = "run"
    /\ TaskOf(workers.proc[2].path) = "ta"

\* C34: no worker starts the command of a task while a child of the task is
\* not sealed.
C34_ChildrenSealedFirst ==
    [][\A w \in Workers :
          workers.proc[w].pc # "run" /\ workers'.proc[w].pc = "run" =>
             \A c \in Range(Children[TaskOf(workers'.proc[w].path)]) :
                c \in workers.seal]_workers

\* C35: when the run of a worker has ended, for whatever reason, no task is
\* locked by it.
C35_LocksRemoved ==
    \A w \in Workers :
       workers.proc[w].pc \in {"end", "exit"} =>
          \A t \in workers.lock : workers.holder[t] # w

====
